---- MODULE Spec2Model ----
(***************************************************************************)
(* Model of the conversation-turn pipeline of sc-hua/conversation:         *)
(*   conversation/core/graph.py    ConversationGraph (chat, end)           *)
(*   conversation/core/manager.py  HistoryManager (the history store)      *)
(*   conversation/core/modules.py  Content, Message, History               *)
(*   conversation/llm/mock.py      MockLLM                                 *)
(*                                                                         *)
(* The program runs on one asyncio event loop: a task runs without         *)
(* interruption until it awaits something that really suspends (a locked   *)
(* semaphore, the provider's call, file I/O).  The variable running names  *)
(* the task that owns the loop; only that task steps until it suspends.    *)
(***************************************************************************)
EXTENDS Integers, Sequences, FiniteSets, TLC

\* ---------------------------------------------------------------- bounds
MaxCalls == 2        \* chat invocations in one behaviour, at any times
MaxSeqCalls == 3     \* chat invocations in one behaviour, one after the other
MaxEnds == 1         \* end invocations in one behaviour
MaxConcurrent == 2   \* largest max_concurrent an Orchestrator is built with
MaxStoreEnds == 2    \* end and export invocations on a HistoryManager driven directly
MaxSaves == 2        \* save_msg invocations by a caller of the HistoryManager
MaxClock == 1        \* latest time datetime.now() returns
MaxItems == 2        \* items given to the Content constructor
MaxBlocks == 3       \* blocks of a Content built with the constructor and add_*
MaxStandaloneCalls == 3  \* chat invocations on a StandaloneConversationGraph

\* asyncio.sleep(0.1) in MockLLM.generate_response, in clock ticks of 50 ms.
Delay == 2

\* ------------------------------------------------------------ value domain
\* Python's None, for Optional[str] fields.
None == "<None>"

\* bool(x) of an Optional[str]: None and "" are falsy.
Truthy(s) == s # None /\ s # ""

NamedIds == {"c1"}

\* new_id(): a uuid4 string, never equal to an id made before.  The id made
\* for the ConversationState of chat call n.
new_id(n) == "uuid-" \o ToString(n)

\* The msg_id new_id() gives the k-th Message object a chat call n can make
\* (1 the system, 2 the user, 3 the assistant message).
new_msg_id(n, k) == 3 * (n - 1) + k

SystemPrompts == {None, "S"}

\* A Python dict with string keys is a function on its keys; {} is <<>>.
\* dict.update
update(d, e) ==
    [k \in DOMAIN d \cup DOMAIN e |-> IF k \in DOMAIN e THEN e[k] ELSE d[k]]

\* The fields of a ContentBlock: type, content (the payload string of a text
\* or image block), json (the payload of a json block, a sequence of
\* <<key, value>> pairs) and extras (a dict).
ContentBlock(type, content, json, extras) ==
    [type |-> type, content |-> content, json |-> json, extras |-> extras]

\* Keyword arguments: the value of extras when that keyword is given, and
\* the dict of the keywords other than type, content and extras.
Kwargs(other) == [extrasGiven |-> FALSE, extras |-> <<>>, other |-> other]

KwargsWithExtras(extras, other) ==
    [extrasGiven |-> TRUE, extras |-> extras, other |-> other]

NoKwargs == Kwargs(<<>>)

\* A buggy ContentBlock.__init__ that drops the keywords it does not know.
ContentBlock_init_dropping(type, content, json, kwargs) ==
    ContentBlock(type, content, json,
                 IF kwargs.extrasGiven THEN kwargs.extras ELSE <<>>)

\* ContentBlock.__init__(type=..., content=..., **kwargs): extras is the
\* extras keyword (or {}) updated with every other keyword.
ContentBlock_init(type, content, json, kwargs) ==
    ContentBlock(type, content, json,
                 update(IF kwargs.extrasGiven THEN kwargs.extras ELSE <<>>,
                        kwargs.other))

\* get_extra(key, default)
get_extra(block, key, default) ==
    IF block.extras # <<>> /\ key \in DOMAIN block.extras
    THEN block.extras[key] ELSE default

\* set_extra(key, value)
set_extra(block, key, value) ==
    [block EXCEPT !.extras = update(@, [k \in {key} |-> value])]

\* has_extra(key)
has_extra(block, key) == block.extras # <<>> /\ key \in DOMAIN block.extras

\* IMAGE_BASE_DIR of the environment, and the image paths that
\* resolve_image_path returns as they are (URLs, absolute paths, paths that
\* start with ./ or ../, existing files).
ImageBaseDir == "img"

DirectPaths == {"http://h/i.png"}

resolve_image_path(image_path) ==
    IF image_path \in DirectPaths THEN image_path
    ELSE IF Truthy(ImageBaseDir) THEN ImageBaseDir \o "/" \o image_path
    ELSE image_path

\* The error of a call f(x, **kwargs) whose body calls
\* ContentBlock(type=..., content=x, **kwargs), where params are the names of
\* the parameters of f: a keyword that names a parameter of f, or type,
\* or content, is given twice (TypeError).  None when the call is made.
CallError(params, kwargs) ==
    IF DOMAIN kwargs.other \cap (params \cup {"type", "content"}) # {}
    THEN "TypeError" ELSE None

\* A buggy add_text that puts the block in front.
add_text_front(blocks, text, kwargs) ==
    <<ContentBlock_init("text", text, <<>>, kwargs)>> \o blocks

\* add_text / add_image / add_json append one block at the end.
add_text(blocks, text, kwargs) ==
    Append(blocks, ContentBlock_init("text", text, <<>>, kwargs))

add_image(blocks, image_url, kwargs) ==
    LET kw == IF "resolved_path" \notin DOMAIN kwargs.other
              THEN [kwargs EXCEPT !.other =
                        update(@, [k \in {"resolved_path"} |->
                                      resolve_image_path(image_url)])]
              ELSE kwargs
    IN  Append(blocks, ContentBlock_init("image", image_url, <<>>, kw))

add_json(blocks, json_data, kwargs) ==
    Append(blocks, ContentBlock_init("json", "", json_data, kwargs))

\* An argument of Content(*items): tuple is 0 for an item given bare and
\* else the length of the tuple it is given in; form is the type of the item
\* (of the first element of the tuple): str, dict (with one key) or int;
\* kwargs is the second element of a pair when it is a dict.
Item(tuple, form, key, str, json, extrasIsDict, kwargs) ==
    [tuple |-> tuple, form |-> form, key |-> key, str |-> str, json |-> json,
     extrasIsDict |-> extrasIsDict, kwargs |-> kwargs]

Bare(form, key, str, json) == Item(0, form, key, str, json, FALSE, NoKwargs)

Pair(item, kwargs) == [item EXCEPT !.tuple = 2, !.extrasIsDict = TRUE, !.kwargs = kwargs]

\* The body of the for loop of Content.__init__ for one item: the error
\* raised, or the blocks with the block of the item added.
ContentItem(blocks, item) ==
    IF item.tuple # 0 /\ item.tuple # 2 THEN [error |-> "ValueError", blocks |-> blocks]
    ELSE IF item.tuple = 2 /\ ~item.extrasIsDict THEN [error |-> "ValueError", blocks |-> blocks]
    ELSE LET extras == IF item.tuple = 2 THEN item.kwargs ELSE NoKwargs
         IN  IF item.form = "str" \/ (item.form = "dict" /\ item.key = "text")
             THEN IF CallError({"self", "text"}, extras) # None
                  THEN [error |-> "TypeError", blocks |-> blocks]
                  ELSE [error |-> None, blocks |-> add_text(blocks, item.str, extras)]
             ELSE IF item.form = "dict" /\ item.key = "image"
             THEN IF CallError({"self", "image_url"}, extras) # None
                  THEN [error |-> "TypeError", blocks |-> blocks]
                  ELSE [error |-> None, blocks |-> add_image(blocks, item.str, extras)]
             ELSE IF item.form = "dict" /\ item.key = "json"
             THEN IF CallError({"self", "json_data"}, extras) # None
                  THEN [error |-> "TypeError", blocks |-> blocks]
                  ELSE [error |-> None, blocks |-> add_json(blocks, item.json, extras)]
             ELSE [error |-> "ValueError", blocks |-> blocks]

RECURSIVE ContentItems(_, _, _)
\* The for loop of Content.__init__ from item i on.
ContentItems(blocks, items, i) ==
    IF i > Len(items) THEN [error |-> None, blocks |-> blocks]
    ELSE LET r == ContentItem(blocks, items[i])
         IN  IF r.error # None THEN r ELSE ContentItems(r.blocks, items, i + 1)

\* Content.__init__(*items): a single str is added as text; otherwise the
\* items are added in turn.
Content_init(items) ==
    IF Len(items) = 1 /\ items[1].tuple = 0 /\ items[1].form = "str"
    THEN [error |-> None, blocks |-> add_text(<<>>, items[1].str, NoKwargs)]
    ELSE ContentItems(<<>>, items, 1)

\* Optional[Content]: present = FALSE is None.
NoContent == [present |-> FALSE, blocks |-> <<>>]

Content(blocks) == [present |-> TRUE, blocks |-> blocks]

\* The contents the callers of chat pass: Content("a", {"json": {"k": 1}})
\* and Content("a").
MixedContent == Content(add_json(add_text(<<>>, "a", NoKwargs), << <<"k", "1">> >>, NoKwargs))

Contents == { MixedContent, Content(add_text(<<>>, "a", NoKwargs)) }

\* A buggy truth test that takes None for an input.
HasInput_always(c) == TRUE

\* bool(content) of an Optional[Content]: a pydantic model defines neither
\* __bool__ nor __len__, so every Content object is truthy, also one with
\* no blocks.
HasInput(c) == c.present

\* Message.content is Union[str, Content].
StrContent(s) == [isStr |-> TRUE, str |-> s, blocks |-> <<>>]

StructContent(c) == [isStr |-> FALSE, str |-> "", blocks |-> c.blocks]

Message(id, role, content) == [msg_id |-> id, role |-> role, content |-> content]

\* ---------------------------------------------------------- HistoryManager
\* _map is a function from the conversation ids that have a History to the
\* History record.
exists(m, conv_id) == conv_id \in DOMAIN m

get_msgs(m, conv_id) == IF exists(m, conv_id) THEN m[conv_id].messages ELSE <<>>

\* A buggy get_length without the test for an unknown id.
get_length_unguarded(m, conv_id) == Len(get_msgs(m, conv_id))

get_length(m, conv_id) == IF exists(m, conv_id) THEN Len(get_msgs(m, conv_id)) ELSE -1

\* A buggy save_msg that starts a new list on every call (a lost update).
save_msg_overwrite(m, conv_id, msg, t1, t2) ==
    [c \in DOMAIN m \cup {conv_id} |->
        IF c = conv_id
        THEN [conv_id |-> conv_id, created_at |-> t1, updated_at |-> t2,
              messages |-> <<msg>>]
        ELSE m[c]]

\* A buggy save_msg that appends the message twice.
save_msg_duplicate(m, conv_id, msg, t1, t2) ==
    LET m1 == IF conv_id \notin DOMAIN m
              THEN [c \in DOMAIN m \cup {conv_id} |->
                      IF c = conv_id
                      THEN [conv_id |-> conv_id, created_at |-> t1,
                            updated_at |-> t1, messages |-> <<>>]
                      ELSE m[c]]
              ELSE m
    IN  [m1 EXCEPT ![conv_id].messages = Append(Append(@, msg), msg),
                   ![conv_id].updated_at = t2]

\* A buggy save_msg that puts the message in front of the stored ones.
save_msg_prepend(m, conv_id, msg, t1, t2) ==
    LET m1 == IF conv_id \notin DOMAIN m
              THEN [c \in DOMAIN m \cup {conv_id} |->
                      IF c = conv_id
                      THEN [conv_id |-> conv_id, created_at |-> t1,
                            updated_at |-> t1, messages |-> <<>>]
                      ELSE m[c]]
              ELSE m
    IN  [m1 EXCEPT ![conv_id].messages = <<msg>> \o @,
                   ![conv_id].updated_at = t2]

\* save_msg(conv_id, msg), where datetime.now() gives t1 at line 64 and t2 at
\* line 67.  History(conv_id=conv_id) takes both its timestamps from
\* datetime.now() at construction; line 64 then sets created_at again.
save_msg(m, conv_id, msg, t1, t2) ==
    LET m1 == IF conv_id \notin DOMAIN m
              THEN [c \in DOMAIN m \cup {conv_id} |->
                      IF c = conv_id
                      THEN [conv_id |-> conv_id, created_at |-> t1,
                            updated_at |-> t1, messages |-> <<>>]
                      ELSE m[c]]
              ELSE m
    IN  [m1 EXCEPT ![conv_id].messages = Append(@, msg),
                   ![conv_id].updated_at = t2]

\* A buggy cleanup_memory that empties the whole map.
cleanup_memory_all(m, conv_id) == IF conv_id \in DOMAIN m THEN <<>> ELSE m

cleanup_memory(m, conv_id) ==
    IF conv_id \in DOMAIN m THEN [c \in DOMAIN m \ {conv_id} |-> m[c]] ELSE m

\* ------------------------------------------------------------------ MockLLM
RECURSIVE MockItems(_, _)
\* The per-block lines of MockLLM.generate_response, blocks i..Len(blocks).
MockItems(blocks, i) ==
    IF i > Len(blocks) THEN ""
    ELSE LET blk == blocks[i]
             desc == " item " \o ToString(i)
             line == IF blk.type = "text" THEN desc \o ": text - " \o blk.content
                     ELSE IF blk.type = "image" THEN desc \o ": image - " \o blk.content
                     ELSE IF blk.type = "json"
                          THEN desc \o ": json with " \o ToString(Len(blk.json)) \o " fields"
                          ELSE ""
         IN  line \o MockItems(blocks, i + 1)

UserCount(messages) == Cardinality({i \in 1..Len(messages) : messages[i].role = "user"})

\* A reply that counts every message of the history as an interaction.
MockReply_every_message(messages, current_input) ==
    "analysed in order:" \o MockItems(current_input.blocks, 1) \o
    (IF Len(messages) > 0
     THEN " interaction #" \o ToString(Len(messages) + 1)
     ELSE "")

\* MockLLM.generate_response(messages, current_input): the header, one line
\* per block in order, and the interaction counter when the history holds
\* user messages.
MockReply(messages, current_input) ==
    "analysed in order:" \o MockItems(current_input.blocks, 1) \o
    (IF UserCount(messages) > 0
     THEN " interaction #" \o ToString(UserCount(messages) + 1)
     ELSE "")

\* The replies an HTTP provider (Ollama, OpenAI) may return: any text,
\* the empty string included.
HttpReplies == {"", "reply"}

Providers == {"mock", "http"}

\* -------------------------------------------------------- provider adapters
\* " ".join(parts), from part i on.
RECURSIVE join(_, _)
join(parts, i) ==
    IF i > Len(parts) THEN ""
    ELSE (IF i > 1 THEN " " ELSE "") \o parts[i] \o join(parts, i + 1)

\* json.dumps(data, ensure_ascii=False) of a dict kept as a sequence of
\* <<key, value>> pairs, from pair i on.
RECURSIVE json_dumps_items(_, _)
json_dumps_items(data, i) ==
    IF i > Len(data) THEN ""
    ELSE (IF i > 1 THEN ", " ELSE "") \o "\"" \o data[i][1] \o "\": " \o data[i][2]
         \o json_dumps_items(data, i + 1)

json_dumps(data) == "{" \o json_dumps_items(data, 1) \o "}"

\* The text Content.to_display_text renders for one block.
DisplayPart(block) ==
    IF block.type = "text"
    THEN LET style == get_extra(block, "style", None)
         IN  IF has_extra(block, "style") /\ style \in {"bold", "italic"}
             THEN "[" \o style \o "]" \o block.content \o "[/" \o style \o "]"
             ELSE block.content
    ELSE IF block.type = "image"
    THEN IF has_extra(block, "alt_text")
         THEN "[image: " \o block.content \o " - " \o get_extra(block, "alt_text", None) \o "]"
         ELSE IF has_extra(block, "caption")
         THEN "[image: " \o block.content \o " - " \o get_extra(block, "caption", None) \o "]"
         ELSE "[image: " \o block.content \o "]"
    ELSE IF has_extra(block, "source")
         THEN "[JSON(" \o get_extra(block, "source", None) \o "): " \o json_dumps(block.json) \o "]"
         ELSE "[JSON: " \o json_dumps(block.json) \o "]"

\* The kinds of block the renderings know; a block of another type is
\* passed over.
Kinds == {"text", "image", "json"}

\* The blocks a rendering has a part for.
KnownBlocks(blocks) == SelectSeq(blocks, LAMBDA b : b.type \in Kinds)

\* The parts list of to_display_text, in the order of its loop.
DisplayParts(blocks) ==
    LET known == KnownBlocks(blocks)
    IN  [i \in 1..Len(known) |-> DisplayPart(known[i])]

\* Content.to_display_text()
to_display_text(blocks) == join(DisplayParts(blocks), 1)

\* The images that can be read: files that exist and URLs that answer.
ImageFiles == {"img/pic.png", "http://h/i.png"}

\* The paths that start with http:// or https://.
Urls == {"http://h/i.png"}

\* load_image(image_path, return_type="base64"): the format and the base64
\* text of the image at the resolved path; it raises when the file does
\* not exist or the URL does not answer (ok = FALSE).
load_image(image_path) ==
    LET resolved_path == resolve_image_path(image_path)
    IN  [ok |-> resolved_path \in ImageFiles,
         format |-> "PNG",
         base64 |-> "b64(" \o resolved_path \o ")"]

\* data:image/<format>;base64,<data>
DataUrl(image_data) == "data:image/png;base64," \o image_data.base64

\* Whether load_image raises on an image block of blocks.
Unloadable(blocks) ==
    \E i \in 1..Len(blocks) :
        blocks[i].type = "image" /\ ~load_image(blocks[i].content).ok

\* A wire message {"role": ..., "content": ...}: its content is a string
\* or a list of parts, and a part is {"type": "text", "text": ...} or
\* {"type": "image_url", "image_url": {"url": ...}}.
WireStr(s) == [isArray |-> FALSE, str |-> s, parts |-> <<>>]

WireArray(parts) == [isArray |-> TRUE, str |-> "", parts |-> parts]

TextPart(text) == [type |-> "text", text |-> text, url |-> ""]

ImagePart(url) == [type |-> "image_url", text |-> "", url |-> url]

WireMessage(role, content) == [role |-> role, content |-> content]

\* What convert_messages returns, or the exception it raises.
Converted(out) == [error |-> None, out |-> out]

Raised(error) == [error |-> error, out |-> <<>>]

\* The loop over the history of MockLLM and OllamaLLM, with the messages
\* taken last first.
FlatMessages_reversed(messages) ==
    [i \in 1..Len(messages) |->
        LET msg == messages[Len(messages) + 1 - i]
        IN  WireMessage(msg.role,
                        WireStr(IF msg.content.isStr THEN msg.content.str
                                ELSE to_display_text(msg.content.blocks)))]

\* The loop over the history of MockLLM and OllamaLLM: a string content as
\* it is, a Content as its display text.
FlatMessages(messages) ==
    [i \in 1..Len(messages) |->
        LET msg == messages[i]
        IN  WireMessage(msg.role,
                        WireStr(IF msg.content.isStr THEN msg.content.str
                                ELSE to_display_text(msg.content.blocks)))]

\* MockLLM.convert_messages(messages, current_input)
MockLLM_convert_messages(messages, current_input) ==
    Converted(FlatMessages(messages) \o
              (IF HasInput(current_input)
               THEN <<WireMessage("user", WireStr(to_display_text(current_input.blocks)))>>
               ELSE <<>>))

\* The string OllamaLLM.convert_messages builds for one block of the input.
OllamaPart(blk) ==
    IF blk.type = "text" THEN blk.content
    ELSE IF blk.type = "image" THEN DataUrl(load_image(blk.content))
    ELSE "[JSON data: " \o json_dumps(blk.json) \o "]"

\* content_parts of OllamaLLM.convert_messages, in the order of its loop.
OllamaParts(blocks) ==
    LET known == KnownBlocks(blocks)
    IN  [i \in 1..Len(known) |-> OllamaPart(known[i])]

\* OllamaLLM.convert_messages(messages, current_input)
OllamaLLM_convert_messages(messages, current_input) ==
    IF HasInput(current_input) /\ Unloadable(current_input.blocks)
    THEN Raised("FileNotFoundError")
    ELSE Converted(FlatMessages(messages) \o
                   (IF HasInput(current_input)
                    THEN <<WireMessage("user",
                             WireStr(join(OllamaParts(current_input.blocks), 1)))>>
                    ELSE <<>>))

\* The part OpenAILLM.convert_messages builds for one block.
OpenAIPart(blk) ==
    IF blk.type = "text" THEN TextPart(blk.content)
    ELSE IF blk.type = "image" THEN ImagePart(DataUrl(load_image(blk.content)))
    ELSE TextPart("[JSON data: " \o json_dumps(blk.json) \o "]")

\* content_parts of OpenAILLM.convert_messages, in the order of its loop.
OpenAIParts(blocks) ==
    LET known == KnownBlocks(blocks)
    IN  [i \in 1..Len(known) |-> OpenAIPart(known[i])]

\* The content of the wire message with every message a list of parts.
OpenAIContent_array(blocks) == WireArray(OpenAIParts(blocks))

\* The content of the wire message OpenAILLM.convert_messages builds for
\* the blocks of a Content: the list of parts when a part is an image or
\* there is more than one part, else the text of the only part, or "".
OpenAIContent(blocks) ==
    LET content_parts == OpenAIParts(blocks)
        has_media == \E i \in 1..Len(blocks) : blocks[i].type = "image"
    IN  IF has_media \/ Len(content_parts) > 1
        THEN WireArray(content_parts)
        ELSE WireStr(IF content_parts # <<>> THEN content_parts[1].text ELSE "")

\* OpenAILLM.convert_messages(messages, current_input)
OpenAILLM_convert_messages(messages, current_input) ==
    IF \/ \E i \in 1..Len(messages) :
            ~messages[i].content.isStr /\ Unloadable(messages[i].content.blocks)
       \/ HasInput(current_input) /\ Unloadable(current_input.blocks)
    THEN Raised("FileNotFoundError")
    ELSE Converted(
           [i \in 1..Len(messages) |->
               WireMessage(messages[i].role,
                           IF messages[i].content.isStr
                           THEN WireStr(messages[i].content.str)
                           ELSE OpenAIContent(messages[i].content.blocks))]
           \o (IF HasInput(current_input)
               THEN <<WireMessage("user", OpenAIContent(current_input.blocks))>>
               ELSE <<>>))

\* The part the OpenAILLM of core/providers.py builds for one block: a URL
\* is passed as it is, a local file is read.
ProvidersPart(blk) ==
    IF blk.type = "text" THEN TextPart(blk.content)
    ELSE IF blk.type = "image"
    THEN ImagePart(IF blk.content \in Urls THEN blk.content
                   ELSE DataUrl(load_image(blk.content)))
    ELSE TextPart("JSON data: " \o json_dumps(blk.json))

\* content_parts of that convert_messages, in the order of its loop.
ProvidersParts(blocks) ==
    LET known == KnownBlocks(blocks)
    IN  [i \in 1..Len(known) |-> ProvidersPart(known[i])]

\* convert_messages(messages, current_input) of the OpenAILLM of
\* core/providers.py, which no factory builds: the history is flattened to
\* display text, and the only part of the input must be a text part.
providers_OpenAILLM_convert_messages(messages, current_input) ==
    IF ~HasInput(current_input) THEN Converted(FlatMessages(messages))
    ELSE LET blocks == current_input.blocks
             content_parts == ProvidersParts(blocks)
         IN  IF \E i \in 1..Len(blocks) :
                    /\ blocks[i].type = "image"
                    /\ blocks[i].content \notin Urls
                    /\ ~load_image(blocks[i].content).ok
             THEN Raised("FileNotFoundError")
             ELSE IF content_parts = <<>> THEN Raised("IndexError")
             ELSE IF Len(content_parts) = 1 /\ content_parts[1].type # "text"
             THEN Raised("KeyError")
             ELSE Converted(FlatMessages(messages) \o
                    <<WireMessage("user",
                        IF Len(content_parts) > 1 THEN WireArray(content_parts)
                        ELSE WireStr(content_parts[1].text))>>)

\* The tunables of an adapter: the arguments of a constructor, the
\* environment variables it reads (OLLAMA_* or OPENAI_*, None when unset)
\* and the attributes it sets.  An argument left out is None; the timeout
\* argument is an int, NoTimeout when left out.
NoTimeout == 0 - 1

Settings(model, api_key, base_url, timeout) ==
    [model |-> model, api_key |-> api_key, base_url |-> base_url, timeout |-> timeout]

NoSettings == Settings(None, None, None, NoTimeout)

\* Environment variables are strings.
Env(model, api_key, base_url, timeout) ==
    [model |-> model, api_key |-> api_key, base_url |-> base_url, timeout |-> timeout]

NoEnv == Env(None, None, None, None)

\* os.getenv(name, default) with value the setting of the variable
getenv(value, default) == IF value # None THEN value ELSE default

\* int(text) of a decimal text
int(text) == CHOOSE n \in 0..99 : ToString(n) = text

\* What a constructor sets, or the exception it raises.
Built(cfg) == [error |-> None, cfg |-> cfg]

Failed(error) == [error |-> error, cfg |-> NoSettings]

\* OllamaLLM.__init__(model, base_url, timeout): each attribute is the
\* argument when the argument is None, else the environment variable or
\* its default.
OllamaLLM_init(args, env) ==
    Built(Settings(
        IF args.model = None THEN args.model ELSE getenv(env.model, "qwen2.5vl:3b"),
        None,
        IF args.base_url = None THEN args.base_url
        ELSE getenv(env.base_url, "http://localhost:11434"),
        IF args.timeout = NoTimeout THEN args.timeout ELSE int(getenv(env.timeout, "30"))))

\* OpenAILLM.__init__(model, api_key, base_url, timeout): int(None) raises
\* when the timeout is neither given nor set, and a missing key is an
\* error.
OpenAILLM_init(args, env) ==
    LET model == IF args.model # None THEN args.model ELSE getenv(env.model, None)
        api_key == IF args.api_key # None THEN args.api_key ELSE getenv(env.api_key, None)
        base_url == IF args.base_url # None THEN args.base_url
                    ELSE getenv(env.base_url, None)
    IN  IF args.timeout = NoTimeout /\ env.timeout = None THEN Failed("TypeError")
        ELSE IF ~Truthy(api_key) THEN Failed("ValueError")
        ELSE Built(Settings(model, api_key, base_url,
                            IF args.timeout # NoTimeout THEN args.timeout
                            ELSE int(env.timeout)))

\* ------------------------------------------------------------ the factory
\* The provider names a caller or the environment may give.
Names == {"", "mock", "ollama", "openai", "oai", "MOCK", "Ollama", "claude"}

\* str.lower()
lower(name) ==
    IF name = "MOCK" THEN "mock" ELSE IF name = "Ollama" THEN "ollama" ELSE name

\* The adapter class a factory picks for a name, "none" for a name it does
\* not know.
Picked(name) ==
    IF name = "mock" THEN "mock"
    ELSE IF name = "ollama" THEN "ollama"
    ELSE IF name \in {"openai", "oai"} THEN "openai"
    ELSE "none"

\* What a factory returns: the adapter built and its tunables, or the
\* exception raised.
Created(variant, cfg) == [error |-> None, variant |-> variant, cfg |-> cfg]

NotCreated(error) == [error |-> error, variant |-> "none", cfg |-> NoSettings]

\* create_llm(provider, **kwargs) of llm/__init__.py, with llm_name the
\* setting of LLM_NAME: the name given, or the lowered LLM_NAME, or mock;
\* MockLLM takes no keyword and OllamaLLM no api_key (TypeError).
create_llm(provider, llm_name, args, env) ==
    LET name == IF Truthy(provider) THEN provider ELSE lower(getenv(llm_name, "mock"))
        r == IF Picked(name) = "ollama" THEN OllamaLLM_init(args, env)
             ELSE IF Picked(name) = "openai" THEN OpenAILLM_init(args, env)
             ELSE Built(NoSettings)
    IN  IF Picked(name) = "none" THEN NotCreated("ValueError")
        ELSE IF Picked(name) = "mock" /\ args # NoSettings THEN NotCreated("TypeError")
        ELSE IF Picked(name) = "ollama" /\ args.api_key # None THEN NotCreated("TypeError")
        ELSE IF r.error # None THEN NotCreated(r.error)
        ELSE Created(Picked(name), r.cfg)

\* The tunables the OllamaLLM and the OpenAILLM of core/providers.py keep:
\* the argument when it is truthy, else the environment variable or its
\* default; no statement of these constructors raises.
providers_init(variant, args, env) ==
    IF variant = "ollama"
    THEN Settings(IF Truthy(args.model) THEN args.model
                  ELSE getenv(env.model, "qwen2.5vl:3b"),
                  None,
                  IF Truthy(args.base_url) THEN args.base_url
                  ELSE getenv(env.base_url, "http://localhost:11434"),
                  IF args.timeout > 0 THEN args.timeout
                  ELSE int(getenv(env.timeout, "30")))
    ELSE Settings(IF Truthy(args.model) THEN args.model
                  ELSE getenv(env.model, "gpt-3.5-turbo"),
                  IF Truthy(args.api_key) THEN args.api_key ELSE getenv(env.api_key, None),
                  IF Truthy(args.base_url) THEN args.base_url
                  ELSE getenv(env.base_url, "https://api.openai.com/v1"),
                  IF args.timeout > 0 THEN args.timeout
                  ELSE int(getenv(env.timeout, "30")))

\* create_llm(llm_type, **kwargs) of core/providers.py, with llm_name the
\* setting of LLM_TYPE: the name is lowered wherever it comes from, and
\* MockLLM is built without the keywords.
providers_create_llm(llm_type, llm_name, args, env) ==
    LET name == lower(IF Truthy(llm_type) THEN llm_type ELSE getenv(llm_name, "mock"))
    IN  IF Picked(name) = "none" THEN NotCreated("ValueError")
        ELSE IF Picked(name) = "mock" THEN Created("mock", NoSettings)
        ELSE IF Picked(name) = "ollama" /\ args.api_key # None THEN NotCreated("TypeError")
        ELSE Created(Picked(name), providers_init(Picked(name), args, env))

\* ---------------------------------------------------------------- state
VARIABLES
    llm,            \* ConversationGraph.llm: the provider chosen at construction
    max_concurrent, \* the capacity the semaphore was built with
    semaphore,      \* ConversationGraph.semaphore: its free units (_value)
    history_map,    \* HistoryManager._map
    files,          \* the export files under save_dir, by conversation id
    calls,          \* the chat coroutines, by invocation number
    ends,           \* the end coroutines, by invocation number
    running,        \* the chat call that owns the event loop, 0 when every
                    \* task is suspended
    clock,          \* what datetime.now() returns
    saved,          \* the number of Message objects a caller of the
                    \* HistoryManager has built and saved
    last,           \* the last call a caller made on the HistoryManager
                    \* itself, and what it returned
    built,          \* the Content and the ContentBlock a caller has built
                    \* from modules.py, and how
    loaded,         \* what the last load_conversation returned
    wire,           \* the last call on a provider adapter used on its own,
                    \* and what it returned
    standalone      \* the StandaloneConversationGraph of main.py with its
                    \* StandaloneConversationManager, its calls and its files

\* The state of the objects of modules.py and of the adapters used on their
\* own, and the state of a ConversationGraph with its HistoryManager.
pureVars == <<built, loaded, wire, standalone>>

graphVars == <<llm, max_concurrent, semaphore, history_map, files, calls, ends,
               running, clock, saved, last>>

vars == <<llm, max_concurrent, semaphore, history_map, files, calls, ends,
          running, clock, saved, last, built, loaded, wire, standalone>>

CallIds == 1..(IF MaxCalls > MaxSeqCalls THEN MaxCalls ELSE MaxSeqCalls)

EndIds == 1..(IF MaxEnds > MaxStoreEnds THEN MaxEnds ELSE MaxStoreEnds)

\* The calls that hold a semaphore unit: inside the async with block.
InFlight == {"prepare", "generate", "generating", "persist", "return"}

Finished == {"returned", "raised"}

\* A chat coroutine before it is called.  conv_id, system_prompt and content
\* are the arguments; state_conv_id, response are the ConversationState;
\* message_count is the result's field.  ref and frozen describe the list
\* wake is the time the sleep of a MockLLM generation ends.
\* object passed to the provider as messages: ref > 0 is the messages list of
\* the History whose first message has that msg_id (the live list, which
\* later appends change), otherwise the list is detached and holds frozen.
\* trace, before, alone, evicted and ended are history variables: what the
\* call did, the conversation's History when the call entered its body,
\* whether no other task has changed that conversation since, whether the
\* conversation was evicted since, and the end calls that had returned when
\* the call entered its body.
NewCall ==
    [pc |-> "notyet", conv_id |-> None, system_prompt |-> None,
     content |-> NoContent, state_conv_id |-> None, response |-> None,
     message_count |-> 0, error |-> None, ref |-> 0, frozen |-> <<>>,
     wake |-> 0, trace |-> <<>>, before |-> [exists |-> FALSE, messages |-> <<>>],
     alone |-> TRUE, evicted |-> FALSE, ended |-> {}]

\* fn is the coroutine the caller started: end, or save_conversation_to_file
\* alone.
NewEnd ==
    [pc |-> "notyet", fn |-> "end", conv_id |-> None, save |-> FALSE,
     data |-> <<>>, file_path |-> None, error |-> None]

NoCall == [op |-> "none", conv_id |-> None, result |-> None]

\* load_conversation has not been called: ok is whether a History was
\* returned (None is returned when reading or parsing the file fails).
NoLoaded ==
    [conv_id |-> None, ok |-> FALSE,
     history |-> [conv_id |-> None, created_at |-> 0, updated_at |-> 0,
                  messages |-> <<>>]]

\* No adapter has been called.  what is the method called last, variant
\* the adapter class; messages and input are the arguments of
\* convert_messages and generate_response, args and env those of the
\* constructor and the environment it reads; error is the exception
\* raised, out, reply and cfg what was returned or set; factory is the
\* module of the create_llm called, provider its first argument and
\* llm_name the provider name the environment holds.
NoWire ==
    [what |-> "none", variant |-> "none", messages |-> <<>>, input |-> NoContent,
     error |-> None, out |-> <<>>, reply |-> "", args |-> NoSettings,
     env |-> NoEnv, cfg |-> NoSettings,
     factory |-> "none", provider |-> None, llm_name |-> None]

\* A chat call on the StandaloneConversationGraph before it is made.
\* aliased is whether the local list `messages` is the list the manager
\* stores for conv_id (dict.get found the key) or a list of the call's own,
\* held in messages; turn and alone are ghosts: the number of calls that
\* had entered the body on the same conversation, this one included, and
\* whether the body ran with no other call inside its own.
NewStandaloneCall ==
    [pc |-> "notyet", conversation_id |-> None, system_prompt |-> None,
     structured_content |-> NoContent, is_final |-> FALSE, conv_id |-> None,
     aliased |-> FALSE, messages |-> <<>>, response |-> None,
     message_count |-> 0, input_preview |-> None, turn |-> 0, alone |-> TRUE]

StandaloneCallIds == 1..MaxStandaloneCalls

\* No StandaloneConversationGraph has been built.
NoStandalone ==
    [graph |-> "none", semaphore |-> 0, conversations |-> <<>>, files |-> <<>>,
     now |-> 0, calls |-> [n \in StandaloneCallIds |-> NewStandaloneCall]]

\* The arguments of a call on a Content or a ContentBlock.
CallArgs(type, str, json, kwargs, key, value) ==
    [type |-> type, str |-> str, json |-> json, kwargs |-> kwargs,
     key |-> key, value |-> value]

NoArgs == CallArgs("", "", <<>>, NoKwargs, "", "")

\* what is the object the caller has: none yet, a Content or a
\* ContentBlock (then blocks holds that one block), or failed when the
\* constructor raised; op, args, items and error are the last call.
NoBuilt ==
    [what |-> "none", op |-> "none", items |-> <<>>, args |-> NoArgs,
     blocks |-> <<>>, error |-> None]

Event(ev, id) == [ev |-> ev, msg |-> id]

\* The identity of a History object: the msg_id of its first message (a
\* History is created by the save_msg that appends its first message).
HistoryRef(m, conv_id) == IF exists(m, conv_id) THEN m[conv_id].messages[1].msg_id ELSE 0

\* The value of the messages list the provider of call n reads.
ArgMessages(n) ==
    IF calls[n].ref > 0 THEN history_map[calls[n].state_conv_id].messages
    ELSE calls[n].frozen

\* Task n (0: an end call) changes conversation conv_id: the other chat calls
\* that have entered their body on it are no longer alone.
Disturb(cs, n, conv_id) ==
    [m \in DOMAIN cs |->
        IF m # n /\ cs[m].pc \in InFlight \cup Finished /\ cs[m].state_conv_id = conv_id
        THEN [cs[m] EXCEPT !.alone = FALSE]
        ELSE cs[m]]

Evicted(cs, conv_id) ==
    [m \in DOMAIN cs |->
        IF cs[m].pc \in InFlight \cup Finished /\ cs[m].state_conv_id = conv_id
        THEN [cs[m] EXCEPT !.evicted = TRUE]
        ELSE cs[m]]

\* del self._map[conv_id]: the History object leaves the map; the calls whose
\* provider holds its messages list keep the list as it is now.
Detach(cs, m, conv_id) ==
    [k \in DOMAIN cs |->
        IF cs[k].ref > 0 /\ cs[k].ref = HistoryRef(m, conv_id) /\ cs[k].pc = "generating"
        THEN [cs[k] EXCEPT !.ref = 0, !.frozen = m[conv_id].messages]
        ELSE cs[k]]

Init ==
    /\ llm \in Providers
    /\ max_concurrent \in 1..MaxConcurrent
    /\ semaphore = max_concurrent
    /\ history_map = <<>>
    /\ files = <<>>
    /\ calls = [n \in CallIds |-> NewCall]
    /\ ends = [e \in EndIds |-> NewEnd]
    /\ running = 0
    /\ clock = 0
    /\ saved = 0
    /\ last = NoCall
    /\ built = NoBuilt
    /\ loaded = NoLoaded
    /\ wire = NoWire
    /\ standalone = NoStandalone

\* The conversation ids a caller can pass: a name of its own, or the conv_id
\* of a result it got back.
KnownIds == NamedIds \cup {calls[n].state_conv_id : n \in {k \in CallIds : calls[k].pc = "returned"}}

\* ------------------------------------------------------------------- chat
\* A caller calls chat(conv_id, system_prompt, content): the coroutine exists
\* and is scheduled.
Invoke(n, conv_id, system_prompt, content) ==
    /\ running = 0
    /\ calls[n].pc = "notyet"
    /\ \A k \in 1..(n - 1) : calls[k].pc # "notyet"
    /\ calls' = [calls EXCEPT ![n] = [@ EXCEPT !.pc = "acquire",
                                               !.conv_id = conv_id,
                                               !.system_prompt = system_prompt,
                                               !.content = content]]
    /\ UNCHANGED <<pureVars, clock, saved, last, llm, max_concurrent, semaphore, history_map, files, ends,
                   running>>

\* A buggy acquire that enters the body without a free unit.
Acquire_unguarded(n) ==
    /\ running = 0
    /\ calls[n].pc = "acquire"
    /\ semaphore' = semaphore - 1
    /\ running' = n
    /\ LET id == IF Truthy(calls[n].conv_id) THEN calls[n].conv_id ELSE new_id(n)
       IN  calls' = [calls EXCEPT ![n] =
                [@ EXCEPT !.pc = "prepare",
                          !.state_conv_id = id,
                          !.alone = TRUE,
                          !.ended = {e \in EndIds : ends[e].pc = "returned"},
                          !.before = [exists |-> exists(history_map, id),
                                      messages |-> get_msgs(history_map, id)]]]
    /\ UNCHANGED <<pureVars, clock, saved, last, llm, max_concurrent, history_map, files, ends>>

\* async with self.semaphore, then the ConversationState is built.  A call
\* that finds no free unit stays suspended in acquire.
Acquire(n) ==
    /\ running = 0
    /\ calls[n].pc = "acquire"
    /\ semaphore > 0
    /\ semaphore' = semaphore - 1
    /\ running' = n
    /\ LET id == IF Truthy(calls[n].conv_id) THEN calls[n].conv_id ELSE new_id(n)
       IN  calls' = [calls EXCEPT ![n] =
                [@ EXCEPT !.pc = "prepare",
                          !.state_conv_id = id,
                          !.alone = TRUE,
                          !.ended = {e \in EndIds : ends[e].pc = "returned"},
                          !.before = [exists |-> exists(history_map, id),
                                      messages |-> get_msgs(history_map, id)]]]
    /\ UNCHANGED <<pureVars, clock, saved, last, llm, max_concurrent, history_map, files, ends>>

\* A buggy _prepare_messages that stores the system prompt whenever one is
\* given, without looking at the stored messages.
PrepareMessages_always(n) ==
    /\ running = n
    /\ calls[n].pc = "prepare"
    /\ LET c == calls[n]
           id == c.state_conv_id
       IN  IF Truthy(c.system_prompt)
           THEN /\ history_map' = save_msg(history_map, id,
                        Message(new_msg_id(n, 1), "system", StrContent(c.system_prompt)), clock, clock)
                /\ calls' = [Disturb(calls, n, id) EXCEPT ![n] =
                        [@ EXCEPT !.pc = "generate",
                                  !.trace = Append(@, Event("system", new_msg_id(n, 1)))]]
           ELSE /\ calls' = [calls EXCEPT ![n].pc = "generate"]
                /\ UNCHANGED history_map
    /\ UNCHANGED <<pureVars, clock, saved, last, llm, max_concurrent, semaphore, files, ends, running>>

\* _prepare_messages
PrepareMessages(n) ==
    /\ running = n
    /\ calls[n].pc = "prepare"
    /\ LET c == calls[n]
           id == c.state_conv_id
       IN  IF get_msgs(history_map, id) = <<>> /\ Truthy(c.system_prompt)
           THEN /\ history_map' = save_msg(history_map, id,
                        Message(new_msg_id(n, 1), "system", StrContent(c.system_prompt)), clock, clock)
                /\ calls' = [Disturb(calls, n, id) EXCEPT ![n] =
                        [@ EXCEPT !.pc = "generate",
                                  !.trace = Append(@, Event("system", new_msg_id(n, 1)))]]
           ELSE /\ calls' = [calls EXCEPT ![n].pc = "generate"]
                /\ UNCHANGED history_map
    /\ UNCHANGED <<pureVars, clock, saved, last, llm, max_concurrent, semaphore, files, ends, running>>

\* _generate_response up to the provider's await: with input the provider is
\* called with the conversation's messages list and the call suspends;
\* without input generation is skipped.
GenerateResponse(n) ==
    /\ running = n
    /\ calls[n].pc = "generate"
    /\ IF HasInput(calls[n].content)
       THEN /\ calls' = [calls EXCEPT ![n] =
                    [@ EXCEPT !.pc = "generating",
                              !.ref = HistoryRef(history_map, calls[n].state_conv_id),
                              !.frozen = <<>>,
                              !.wake = clock + Delay,
                              !.trace = Append(@, Event("invoke", 0))]]
            /\ running' = 0
       ELSE /\ calls' = [calls EXCEPT ![n].pc = "persist"]
            /\ UNCHANGED running
    /\ UNCHANGED <<pureVars, clock, saved, last, llm, max_concurrent, semaphore, history_map, files, ends>>

\* The replies the provider of call n can return now.
Replies(n) ==
    IF llm = "mock" THEN {MockReply(ArgMessages(n), calls[n].content)} ELSE HttpReplies

\* The provider's call returns a reply: state.response = response.
ProviderReturn(n) ==
    /\ running = 0
    /\ calls[n].pc = "generating"
    /\ \E reply \in Replies(n) :
          calls' = [calls EXCEPT ![n] =
                [@ EXCEPT !.pc = "persist",
                          !.response = reply,
                          !.ref = 0,
                          !.frozen = <<>>,
                          !.trace = Append(@, Event("return", 0))]]
    /\ running' = n
    /\ UNCHANGED <<pureVars, clock, saved, last, llm, max_concurrent, semaphore, history_map, files, ends>>

\* A buggy failure path that keeps the unit.
ProviderFail_leak(n) ==
    /\ running = 0
    /\ calls[n].pc = "generating"
    /\ llm = "http"
    /\ calls' = [calls EXCEPT ![n] =
            [@ EXCEPT !.pc = "raised",
                      !.error = "ProviderError",
                      !.ref = 0,
                      !.frozen = <<>>,
                      !.trace = Append(@, Event("fail", 0))]]
    /\ UNCHANGED <<pureVars, clock, saved, last, llm, max_concurrent, semaphore, history_map, files, ends, running>>

\* A buggy failure path that calls the provider again.
ProviderFail_retry(n) ==
    /\ running = 0
    /\ calls[n].pc = "generating"
    /\ llm = "http"
    /\ calls' = [calls EXCEPT ![n] =
            [@ EXCEPT !.pc = "generate",
                      !.ref = 0,
                      !.frozen = <<>>,
                      !.trace = Append(@, Event("fail", 0))]]
    /\ running' = n
    /\ UNCHANGED <<pureVars, clock, saved, last, llm, max_concurrent, semaphore, history_map, files, ends>>

\* The provider's call raises (a transport error or a timeout; MockLLM never
\* raises): the exception leaves _generate_response and chat, and the
\* async with block releases the unit on the way out.
ProviderFail(n) ==
    /\ running = 0
    /\ calls[n].pc = "generating"
    /\ llm = "http"
    /\ calls' = [calls EXCEPT ![n] =
            [@ EXCEPT !.pc = "raised",
                      !.error = "ProviderError",
                      !.ref = 0,
                      !.frozen = <<>>,
                      !.trace = Append(@, Event("fail", 0))]]
    /\ semaphore' = semaphore + 1
    /\ UNCHANGED <<pureVars, clock, saved, last, llm, max_concurrent, history_map, files, ends, running>>

\* A buggy _save_history that stores the reply before the input.
SaveHistory_swapped(n) ==
    /\ running = n
    /\ calls[n].pc = "persist"
    /\ LET c == calls[n]
           id == c.state_conv_id
           u == HasInput(c.content)
           a == Truthy(c.response)
           uid == new_msg_id(n, 2)
           aid == new_msg_id(n, 3)
           m1 == IF a THEN save_msg(history_map, id,
                                    Message(aid, "assistant", StrContent(c.response)), clock, clock)
                 ELSE history_map
           m2 == IF u THEN save_msg(m1, id,
                                    Message(uid, "user", StructContent(c.content)), clock, clock)
                 ELSE m1
           t1 == IF a THEN Append(c.trace, Event("assistant", aid)) ELSE c.trace
           t2 == IF u THEN Append(t1, Event("user", uid)) ELSE t1
           cs == IF u \/ a THEN Disturb(calls, n, id) ELSE calls
       IN  /\ history_map' = m2
           /\ calls' = [cs EXCEPT ![n] = [@ EXCEPT !.pc = "return", !.trace = t2]]
    /\ UNCHANGED <<pureVars, clock, saved, last, llm, max_concurrent, semaphore, files, ends, running>>

\* _save_history: the user message, then the assistant message.
SaveHistory(n) ==
    /\ running = n
    /\ calls[n].pc = "persist"
    /\ LET c == calls[n]
           id == c.state_conv_id
           u == HasInput(c.content)
           a == Truthy(c.response)
           uid == new_msg_id(n, 2)
           aid == new_msg_id(n, 3)
           m1 == IF u THEN save_msg(history_map, id,
                                    Message(uid, "user", StructContent(c.content)), clock, clock)
                 ELSE history_map
           m2 == IF a THEN save_msg(m1, id,
                                    Message(aid, "assistant", StrContent(c.response)), clock, clock)
                 ELSE m1
           t1 == IF u THEN Append(c.trace, Event("user", uid)) ELSE c.trace
           t2 == IF a THEN Append(t1, Event("assistant", aid)) ELSE t1
           cs == IF u \/ a THEN Disturb(calls, n, id) ELSE calls
       IN  /\ history_map' = m2
           /\ calls' = [cs EXCEPT ![n] = [@ EXCEPT !.pc = "return", !.trace = t2]]
    /\ UNCHANGED <<pureVars, clock, saved, last, llm, max_concurrent, semaphore, files, ends, running>>

\* The result is built (message_count = get_length), the async with block
\* releases the unit, and chat returns.
ChatReturn(n) ==
    /\ running = n
    /\ calls[n].pc = "return"
    /\ calls' = [calls EXCEPT ![n] =
            [@ EXCEPT !.pc = "returned",
                      !.message_count = get_length(history_map, calls[n].state_conv_id)]]
    /\ semaphore' = semaphore + 1
    /\ running' = 0
    /\ UNCHANGED <<pureVars, clock, saved, last, llm, max_concurrent, history_map, files, ends>>

\* -------------------------------------------------------------------- end
\* datetime.isoformat, as pydantic writes a datetime, and
\* datetime.fromisoformat.
isoformat(t) == "2025-01-01T00:00:0" \o ToString(t)

fromisoformat(text) == CHOOSE t \in 0..MaxClock : isoformat(t) = text

\* The JSON written for a ContentBlock, a Message.content (a string, or an
\* object with the key blocks) and a Message (the model's Message has no
\* timestamp).
DumpBlock(b) ==
    [type |-> b.type, content |-> b.content, json |-> b.json, extras |-> b.extras]

DumpContent(c) ==
    IF c.isStr THEN [isDict |-> FALSE, str |-> c.str, blocks |-> <<>>]
    ELSE [isDict |-> TRUE, str |-> "",
          blocks |-> [i \in 1..Len(c.blocks) |-> DumpBlock(c.blocks[i])]]

DumpMessage(m) ==
    [msg_id |-> m.msg_id, role |-> m.role, content |-> DumpContent(m.content)]

\* History.model_dump_json(indent=2, exclude_none=True): the document
\* written to the export file; metadata is None and left out.
model_dump_json(h) ==
    [conv_id |-> h.conv_id,
     created_at |-> isoformat(h.created_at),
     updated_at |-> isoformat(h.updated_at),
     messages |-> [i \in 1..Len(h.messages) |-> DumpMessage(h.messages[i])]]

FilePath(conv_id) == conv_id \o ".json"

\* The file of conv_id holds text: <<>> is an empty file, <<d>> a file
\* holding the document d.
WriteFile(fs, conv_id, text) ==
    [c \in DOMAIN fs \cup {conv_id} |-> IF c = conv_id THEN text ELSE fs[c]]

\* A caller calls end(conv_id, save).
EndInvoke(e, conv_id, save) ==
    /\ running = 0
    /\ ends[e].pc = "notyet"
    /\ \A k \in 1..(e - 1) : ends[k].pc # "notyet"
    /\ ends' = [ends EXCEPT ![e] = [@ EXCEPT !.pc = "start",
                                             !.conv_id = conv_id,
                                             !.save = save]]
    /\ UNCHANGED <<pureVars, clock, saved, last, llm, max_concurrent, semaphore, history_map, files, calls,
                   running>>

\* A buggy start of save_conversation_to_file without the test for an unknown
\* id: the file is opened whatever the store holds.
EndStart_unchecked(e) ==
    /\ running = 0
    /\ ends[e].pc = "start"
    /\ LET id == ends[e].conv_id
       IN  IF ends[e].save
           THEN /\ ends' = [ends EXCEPT ![e].pc = "opening"]
                /\ UNCHANGED <<history_map, calls>>
           ELSE /\ ends' = [ends EXCEPT ![e].pc = "returned"]
                /\ history_map' = cleanup_memory(history_map, id)
                /\ calls' = IF exists(history_map, id)
                            THEN Evicted(Disturb(Detach(calls, history_map, id), 0, id), id)
                            ELSE calls
    /\ UNCHANGED <<pureVars, clock, saved, last, llm, max_concurrent, semaphore, files, running>>

\* end runs up to its first suspension.  With save, save_conversation_to_file
\* raises ValueError for an unknown id and otherwise suspends opening the
\* file; without save, cleanup_memory runs and end returns None.
EndStart(e) ==
    /\ running = 0
    /\ ends[e].pc = "start"
    /\ LET id == ends[e].conv_id
       IN  IF ends[e].save
           THEN /\ ends' = [ends EXCEPT ![e] =
                        IF exists(history_map, id)
                        THEN [@ EXCEPT !.pc = "opening"]
                        ELSE [@ EXCEPT !.pc = "raised", !.error = "ValueError"]]
                /\ UNCHANGED <<history_map, calls>>
           ELSE /\ ends' = [ends EXCEPT ![e].pc = "returned"]
                /\ history_map' = cleanup_memory(history_map, id)
                /\ calls' = IF exists(history_map, id)
                            THEN Evicted(Disturb(Detach(calls, history_map, id), 0, id), id)
                            ELSE calls
    /\ UNCHANGED <<pureVars, clock, saved, last, llm, max_concurrent, semaphore, files, running>>

\* aiofiles.open(filepath, 'w') has opened (and emptied) the file; the
\* History is read from _map again, which raises KeyError when it was evicted
\* in between; otherwise the document is built and the write suspends.
EndOpened(e) ==
    /\ running = 0
    /\ ends[e].pc = "opening"
    /\ LET id == ends[e].conv_id
       IN  /\ files' = WriteFile(files, id, <<>>)
           /\ ends' = [ends EXCEPT ![e] =
                   IF exists(history_map, id)
                   THEN [@ EXCEPT !.pc = "writing",
                                  !.data = <<model_dump_json(history_map[id])>>]
                   ELSE [@ EXCEPT !.pc = "raised", !.error = "KeyError"]]
    /\ UNCHANGED <<pureVars, clock, saved, last, llm, max_concurrent, semaphore, history_map, calls, running>>

\* f.write(data) is done; leaving the async with block closes the file,
\* which suspends again.
EndWritten(e) ==
    /\ running = 0
    /\ ends[e].pc = "writing"
    /\ files' = WriteFile(files, ends[e].conv_id, ends[e].data)
    /\ ends' = [ends EXCEPT ![e].pc = "closing"]
    /\ UNCHANGED <<pureVars, clock, saved, last, llm, max_concurrent, semaphore, history_map, calls, running>>

\* A buggy save_conversation_to_file that removes the History it has
\* written.
EndFinish_evicting(e) ==
    /\ running = 0
    /\ ends[e].pc = "closing"
    /\ LET id == ends[e].conv_id
       IN  /\ ends' = [ends EXCEPT ![e] = [@ EXCEPT !.pc = "returned",
                                                    !.file_path = FilePath(id)]]
           /\ history_map' = cleanup_memory(history_map, id)
           /\ calls' = IF exists(history_map, id)
                       THEN Evicted(Disturb(Detach(calls, history_map, id), 0, id), id)
                       ELSE calls
    /\ UNCHANGED <<pureVars, clock, saved, last, llm, max_concurrent, semaphore, files, running>>

\* save_conversation_to_file returns the path; end runs cleanup_memory and
\* returns the path.
EndFinish(e) ==
    /\ running = 0
    /\ ends[e].pc = "closing"
    /\ LET id == ends[e].conv_id
       IN  /\ ends' = [ends EXCEPT ![e] = [@ EXCEPT !.pc = "returned",
                                                    !.file_path = FilePath(id)]]
           /\ IF ends[e].fn = "end"
              THEN /\ history_map' = cleanup_memory(history_map, id)
                   /\ calls' = IF exists(history_map, id)
                               THEN Evicted(Disturb(Detach(calls, history_map, id), 0, id), id)
                               ELSE calls
              ELSE UNCHANGED <<history_map, calls>>
    /\ UNCHANGED <<pureVars, clock, saved, last, llm, max_concurrent, semaphore, files, running>>

\* ------------------------------------------------------------ specification
Next ==
    \/ \E n \in 1..MaxCalls, id \in KnownIds \cup {None}, sp \in SystemPrompts,
          c \in {MixedContent, NoContent} : Invoke(n, id, sp, c)
    \/ \E n \in CallIds : Acquire(n)
    \/ \E n \in CallIds : PrepareMessages(n)
    \/ \E n \in CallIds : GenerateResponse(n)
    \/ \E n \in CallIds : ProviderReturn(n)
    \/ \E n \in CallIds : ProviderFail(n)
    \/ \E n \in CallIds : SaveHistory(n)
    \/ \E n \in CallIds : ChatReturn(n)
    \/ \E e \in 1..MaxEnds, id \in KnownIds, save \in BOOLEAN : EndInvoke(e, id, save)
    \/ \E e \in EndIds : EndStart(e)
    \/ \E e \in EndIds : EndOpened(e)
    \/ \E e \in EndIds : EndWritten(e)
    \/ \E e \in EndIds : EndFinish(e)

Spec == Init /\ [][Next]_vars

\* Sequential turns of one conversation on the Mock provider, as in
\* multi_round_conversation_test: the first chat gives a system prompt and no
\* conv_id, each later chat is made after the one before has returned and
\* passes the conv_id of the first result.
SeqInvoke(n, system_prompt, content) ==
    /\ \A k \in CallIds : calls[k].pc \in {"notyet", "returned"}
    /\ n = 1 => Truthy(system_prompt)
    /\ Invoke(n, IF n = 1 THEN None ELSE calls[1].state_conv_id, system_prompt, content)

InitSeq == Init /\ llm = "mock"

NextSeq ==
    \/ \E n \in 1..MaxSeqCalls, sp \in SystemPrompts, c \in Contents : SeqInvoke(n, sp, c)
    \/ \E n \in CallIds : Acquire(n)
    \/ \E n \in CallIds : PrepareMessages(n)
    \/ \E n \in CallIds : GenerateResponse(n)
    \/ \E n \in CallIds : ProviderReturn(n)
    \/ \E n \in CallIds : SaveHistory(n)
    \/ \E n \in CallIds : ChatReturn(n)

SpecSeq == InitSeq /\ [][NextSeq]_vars

\* Fair scheduling: the event loop runs every task that is ready (a chat
\* call whose acquire can succeed, or that is in its body), and every
\* provider call returns or raises.
ChatStep(n) ==
    \/ Acquire(n)
    \/ PrepareMessages(n)
    \/ GenerateResponse(n)
    \/ ProviderReturn(n)
    \/ ProviderFail(n)
    \/ SaveHistory(n)
    \/ ChatReturn(n)

SpecFair == Spec /\ \A n \in CallIds : WF_vars(ChatStep(n))

\* ------------------------------------------------------- chat calls in time
\* Chat calls started together (asyncio.gather) on a Mock provider with
\* capacity 2, each on a conversation of its own with an input.  Running
\* code takes no time; only the sleep of MockLLM.generate_response does.
TimedInvoke(n) ==
    /\ clock = 0
    /\ \A k \in CallIds : calls[k].pc \in {"notyet", "acquire"}
    /\ Invoke(n, None, None, MixedContent)

\* The sleep of call n is over.
TimedProviderReturn(n) ==
    /\ calls[n].wake <= clock
    /\ ProviderReturn(n)

\* A task is ready to run: it can take a unit, or its sleep is over.
Ready(n) ==
    \/ calls[n].pc = "acquire" /\ semaphore > 0
    \/ calls[n].pc = "generating" /\ calls[n].wake <= clock

\* Time passes while every task is suspended and none is ready.
TimePasses ==
    /\ running = 0
    /\ \A n \in CallIds : calls[n].pc # "notyet" /\ ~Ready(n)
    /\ \E n \in CallIds : calls[n].pc \notin Finished
    /\ clock' = clock + 1
    /\ UNCHANGED <<pureVars, llm, max_concurrent, semaphore, history_map, files, calls,
                   ends, running, saved, last>>

InitTimed == Init /\ llm = "mock" /\ max_concurrent = 2

NextTimed ==
    \/ \E n \in CallIds : TimedInvoke(n)
    \/ \E n \in CallIds : Acquire(n)
    \/ \E n \in CallIds : PrepareMessages(n)
    \/ \E n \in CallIds : GenerateResponse(n)
    \/ \E n \in CallIds : TimedProviderReturn(n)
    \/ \E n \in CallIds : SaveHistory(n)
    \/ \E n \in CallIds : ChatReturn(n)
    \/ TimePasses

SpecTimed == InitTimed /\ [][NextTimed]_vars

\* ------------------------------------------ Content and ContentBlock alone
\* A caller builds a Content with the constructor and the add methods, or a
\* ContentBlock with its constructor, and sets extras on the blocks.
Style == [k \in {"style"} |-> "bold"]

Italic == [k \in {"style"} |-> "italic"]

Reserved == [k \in {"type"} |-> "x"]

JsonData == << <<"k", "1">> >>

\* The keyword arguments a caller gives to a ContentBlock.
BlockKwargs ==
    {NoKwargs, Kwargs(Style), KwargsWithExtras(Italic, <<>>),
     KwargsWithExtras(Italic, Style), KwargsWithExtras(Reserved, Style)}

\* The keyword arguments a caller gives to an add method, and the dicts it
\* gives as the second element of a pair.
AddKwargs == BlockKwargs \cup {Kwargs(Reserved)}

Items ==
    {Bare("str", "", "a", <<>>),
     Bare("dict", "text", "t", <<>>),
     Bare("dict", "image", "chart.png", <<>>),
     Bare("dict", "json", "", JsonData),
     Bare("dict", "video", "v", <<>>),
     Bare("int", "", "", <<>>),
     Pair(Bare("str", "", "b", <<>>), Kwargs(Style)),
     Pair(Bare("dict", "image", "http://h/i.png", <<>>), KwargsWithExtras(Italic, Style)),
     Pair(Bare("str", "", "b", <<>>), Kwargs(Reserved)),
     Pair(Bare("dict", "json", "", JsonData), KwargsWithExtras(Reserved, <<>>)),
     Item(3, "str", "", "b", <<>>, FALSE, NoKwargs),
     Item(2, "str", "", "b", <<>>, FALSE, NoKwargs)}

ItemSeqs == UNION {[1..n -> Items] : n \in 0..MaxItems}

\* Content(*items)
NewContent(items) ==
    /\ built.what = "none"
    /\ LET r == Content_init(items)
       IN  built' = [built EXCEPT !.what = IF r.error = None THEN "Content" ELSE "failed",
                                  !.op = "Content",
                                  !.items = items,
                                  !.blocks = IF r.error = None THEN r.blocks ELSE <<>>,
                                  !.error = r.error]
    /\ UNCHANGED <<graphVars, loaded, wire, standalone>>

\* content.add_text(text, **kwargs), add_image(url, **kwargs) or
\* add_json(data, **kwargs)
AddBlock(op, str, json, kwargs) ==
    /\ built.what = "Content"
    /\ Len(built.blocks) < MaxBlocks
    /\ op \in {"add_text", "add_image", "add_json"}
    /\ LET param == IF op = "add_text" THEN "text"
                    ELSE IF op = "add_image" THEN "image_url" ELSE "json_data"
           error == CallError({"self", param}, kwargs)
           blocks == IF error # None THEN built.blocks
                     ELSE IF op = "add_text" THEN add_text(built.blocks, str, kwargs)
                     ELSE IF op = "add_image" THEN add_image(built.blocks, str, kwargs)
                     ELSE add_json(built.blocks, json, kwargs)
       IN  built' = [built EXCEPT !.op = op,
                                  !.args = CallArgs("", str, json, kwargs, "", ""),
                                  !.blocks = blocks,
                                  !.error = error]
    /\ UNCHANGED <<graphVars, loaded, wire, standalone>>

\* ContentBlock(type=type, content=..., **kwargs)
NewBlock(type, str, json, kwargs) ==
    /\ built.what = "none"
    /\ built' = [built EXCEPT !.what = "ContentBlock",
                              !.op = "ContentBlock",
                              !.args = CallArgs(type, str, json, kwargs, "", ""),
                              !.blocks = <<ContentBlock_init(type, str, json, kwargs)>>]
    /\ UNCHANGED <<graphVars, loaded, wire, standalone>>

\* block.set_extra(key, value) on block i
SetExtra(i, key, value) ==
    /\ built.what \in {"Content", "ContentBlock"}
    /\ i \in 1..Len(built.blocks)
    /\ built' = [built EXCEPT !.op = "set_extra",
                              !.args = CallArgs("", "", <<>>, NoKwargs, key, value),
                              !.blocks[i] = set_extra(@, key, value),
                              !.error = None]
    /\ UNCHANGED <<graphVars, loaded, wire, standalone>>

InitContent == Init /\ llm = "mock" /\ max_concurrent = 1

NextContent ==
    \/ \E items \in ItemSeqs : NewContent(items)
    \/ \E kwargs \in AddKwargs : AddBlock("add_text", "z", <<>>, kwargs)
    \/ \E kwargs \in AddKwargs : AddBlock("add_image", "pic.png", <<>>, kwargs)
    \/ \E kwargs \in AddKwargs : AddBlock("add_json", "", JsonData, kwargs)
    \/ \E kwargs \in BlockKwargs : NewBlock("text", "a", <<>>, kwargs)
    \/ \E kwargs \in BlockKwargs : NewBlock("json", "", JsonData, kwargs)
    \/ \E i \in 1..MaxBlocks, key \in {"style", "type"} : SetExtra(i, key, "v")

SpecContent == InitContent /\ [][NextContent]_vars

\* ------------------------------------------- the HistoryManager on its own
\* A caller drives one HistoryManager directly: save_msg, the three reads,
\* cleanup_memory, save_conversation_to_file and ConversationGraph.end, in
\* any order and, for the two coroutines, interleaved at their suspensions.
StoreIds == {"c1", "c2"}

\* Time passes.
Tick ==
    /\ clock < MaxClock
    /\ clock' = clock + 1
    /\ UNCHANGED <<pureVars, llm, max_concurrent, semaphore, history_map, files, calls,
                   ends, running, saved, last>>

\* save_msg(conv_id, msg) with a Message built for the call; time may pass
\* between its two readings of the clock.
StoreSaveMsg(conv_id, t2) ==
    /\ running = 0
    /\ saved < MaxSaves
    /\ t2 \in clock..MaxClock
    /\ LET msg == Message(saved + 1, "user", StrContent("m"))
       IN  /\ history_map' = save_msg(history_map, conv_id, msg, clock, t2)
           /\ last' = [op |-> "save_msg", conv_id |-> conv_id, result |-> None]
    /\ saved' = saved + 1
    /\ clock' = t2
    /\ UNCHANGED <<pureVars, llm, max_concurrent, semaphore, files, calls, ends, running>>

\* A read that builds a History for an id it does not know.
StoreRead_creating(op, conv_id) ==
    /\ running = 0
    /\ op \in {"exists", "get_msgs", "get_length"}
    /\ last' = [op |-> op, conv_id |-> conv_id,
                result |-> IF op = "exists" THEN exists(history_map, conv_id)
                           ELSE IF op = "get_msgs" THEN get_msgs(history_map, conv_id)
                           ELSE get_length(history_map, conv_id)]
    /\ history_map' = IF exists(history_map, conv_id) THEN history_map
                      ELSE [c \in DOMAIN history_map \cup {conv_id} |->
                              IF c = conv_id
                              THEN [conv_id |-> conv_id, created_at |-> clock,
                                    updated_at |-> clock, messages |-> <<>>]
                              ELSE history_map[c]]
    /\ UNCHANGED <<pureVars, llm, max_concurrent, semaphore, files, calls, ends, running,
                   clock, saved>>

\* exists(conv_id), get_msgs(conv_id) or get_length(conv_id)
StoreRead(op, conv_id) ==
    /\ running = 0
    /\ op \in {"exists", "get_msgs", "get_length"}
    /\ last' = [op |-> op, conv_id |-> conv_id,
                result |-> IF op = "exists" THEN exists(history_map, conv_id)
                           ELSE IF op = "get_msgs" THEN get_msgs(history_map, conv_id)
                           ELSE get_length(history_map, conv_id)]
    /\ UNCHANGED <<pureVars, llm, max_concurrent, semaphore, history_map, files, calls,
                   ends, running, clock, saved>>

\* cleanup_memory(conv_id)
StoreCleanup(conv_id) ==
    /\ running = 0
    /\ history_map' = cleanup_memory(history_map, conv_id)
    /\ last' = [op |-> "cleanup_memory", conv_id |-> conv_id, result |-> None]
    /\ UNCHANGED <<pureVars, llm, max_concurrent, semaphore, files, calls, ends, running,
                   clock, saved>>

\* A caller calls save_conversation_to_file(conv_id) itself: the steps of
\* end with save, without the cleanup_memory after them.
ExportInvoke(e, conv_id) ==
    /\ running = 0
    /\ ends[e].pc = "notyet"
    /\ \A k \in 1..(e - 1) : ends[k].pc # "notyet"
    /\ ends' = [ends EXCEPT ![e] = [@ EXCEPT !.pc = "start",
                                             !.fn = "save_conversation_to_file",
                                             !.conv_id = conv_id,
                                             !.save = TRUE]]
    /\ UNCHANGED <<pureVars, llm, max_concurrent, semaphore, history_map, files, calls,
                   running, clock, saved, last>>

InitStore == Init /\ llm = "mock" /\ max_concurrent = 1

NextStore ==
    \/ Tick
    \/ \E id \in StoreIds, t2 \in 0..MaxClock : StoreSaveMsg(id, t2)
    \/ \E id \in StoreIds : StoreRead("exists", id)
    \/ \E id \in StoreIds : StoreRead("get_msgs", id)
    \/ \E id \in StoreIds : StoreRead("get_length", id)
    \/ \E id \in StoreIds : StoreCleanup(id)
    \/ \E e \in 1..MaxStoreEnds, id \in StoreIds : ExportInvoke(e, id)
    \/ \E e \in 1..MaxStoreEnds, id \in StoreIds, save \in BOOLEAN : EndInvoke(e, id, save)
    \/ \E e \in EndIds : EndStart(e)
    \/ \E e \in EndIds : EndOpened(e)
    \/ \E e \in EndIds : EndWritten(e)
    \/ \E e \in EndIds : EndFinish(e)

SpecStore == InitStore /\ [][NextStore]_vars

\* --------------------------------------------------- export and reload
\* A ContentBlock rebuilt without its extras.
LoadBlock_bare(b) == ContentBlock_init(b.type, b.content, b.json, NoKwargs)

\* ContentBlock(type=block['type'], content=block['content'],
\*              extras=block.get('extras', {}))
LoadBlock(b) ==
    ContentBlock_init(b.type, b.content, b.json,
                      KwargsWithExtras(IF "extras" \in DOMAIN b THEN b.extras ELSE <<>>,
                                       <<>>))

LoadMessage(d) ==
    Message(d.msg_id, d.role,
            IF d.content.isDict
            THEN StructContent(Content([i \in 1..Len(d.content.blocks) |->
                                            LoadBlock(d.content.blocks[i])]))
            ELSE StrContent(d.content.str))

\* MultimodalExporter.load_conversation(conv_id + ".json"): None when the
\* file is missing or holds no JSON document.
load_conversation(fs, conv_id) ==
    IF conv_id \notin DOMAIN fs \/ fs[conv_id] = <<>>
    THEN [NoLoaded EXCEPT !.conv_id = conv_id]
    ELSE LET data == fs[conv_id][1]
         IN  [conv_id |-> conv_id, ok |-> TRUE,
              history |-> [conv_id |-> data.conv_id,
                           created_at |-> fromisoformat(data.created_at),
                           updated_at |-> fromisoformat(data.updated_at),
                           messages |-> [i \in 1..Len(data.messages) |->
                                            LoadMessage(data.messages[i])]]]

\* The message contents of the histories that are exported: a plain string,
\* and a Content of a text, an image with extras and a json block.
ExportedContents ==
    {StrContent("s"),
     StructContent(Content(Content_init(
         <<Bare("str", "", "a", <<>>),
           Pair(Bare("dict", "image", "chart.png", <<>>), Kwargs(Style)),
           Bare("dict", "json", "", JsonData)>>).blocks))}

\* save_msg(conv_id, Message(role=role, content=content))
SaveMessage(conv_id, role, content) ==
    /\ running = 0
    /\ saved < MaxSaves
    /\ history_map' = save_msg(history_map, conv_id,
                               Message(saved + 1, role, content), clock, clock)
    /\ last' = [op |-> "save_msg", conv_id |-> conv_id, result |-> None]
    /\ saved' = saved + 1
    /\ UNCHANGED <<pureVars, llm, max_concurrent, semaphore, files, calls,
                   ends, running, clock>>

LoadConversation(conv_id) ==
    /\ loaded' = load_conversation(files, conv_id)
    /\ UNCHANGED <<graphVars, built, wire, standalone>>

InitExport == Init /\ llm = "mock" /\ max_concurrent = 1

NextExport ==
    \/ Tick
    \/ \E role \in {"user", "assistant"}, content \in ExportedContents :
          SaveMessage("c1", role, content)
    \/ \E e \in 1..MaxStoreEnds : ExportInvoke(e, "c1")
    \/ \E e \in EndIds : EndStart(e)
    \/ \E e \in EndIds : EndOpened(e)
    \/ \E e \in EndIds : EndWritten(e)
    \/ \E e \in EndIds : EndFinish(e)
    \/ LoadConversation("c1")

SpecExport == InitExport /\ [][NextExport]_vars

\* ------------------------------------------------ the adapters on their own
\* A caller builds an adapter, or calls convert_messages or
\* generate_response on one, with a history and an input of its own.
MaxPrior == 2        \* messages of the history given to an adapter

\* The blocks of the inputs and of the structured messages, as the add
\* methods build them.
AdapterBlocks ==
    {add_text(<<>>, "a", NoKwargs)[1],
     add_text(<<>>, "b", Kwargs(Style))[1],
     add_image(<<>>, "pic.png", NoKwargs)[1],
     add_image(<<>>, "gone.png", NoKwargs)[1],
     add_image(<<>>, "http://h/i.png", NoKwargs)[1],
     add_json(<<>>, JsonData, NoKwargs)[1],
     add_json(<<>>, JsonData \o << <<"n", "2">> >>, NoKwargs)[1]}

BlockSeqs == UNION {[1..n -> AdapterBlocks] : n \in 0..MaxBlocks}

\* current_input: None or a Content.
Inputs == {NoContent} \cup {Content(blocks) : blocks \in BlockSeqs}

\* The messages of the histories.
PriorMessages ==
    {Message(1, "user", StrContent("q")),
     Message(2, "assistant", StrContent("r")),
     Message(3, "system", StructContent(Content(add_text(<<>>, "a", NoKwargs)))),
     Message(4, "user", StructContent(Content(<<>>))),
     Message(5, "user", StructContent(Content(
         add_text(add_text(<<>>, "a", NoKwargs), "b", Kwargs(Style))))),
     Message(6, "user", StructContent(Content(
         add_image(add_text(<<>>, "a", NoKwargs), "pic.png", NoKwargs)))),
     Message(7, "user", StructContent(Content(add_image(<<>>, "pic.png", NoKwargs)))),
     Message(8, "assistant", StructContent(Content(add_json(<<>>, JsonData, NoKwargs)))),
     Message(9, "user", StructContent(Content(add_image(<<>>, "gone.png", NoKwargs))))}

Histories == UNION {[1..n -> PriorMessages] : n \in 0..MaxPrior}

Variants == {"mock", "ollama", "openai", "providers.openai"}

\* llm.convert_messages(messages, current_input) of the adapter variant
convert_messages(variant, messages, current_input) ==
    IF variant = "mock" THEN MockLLM_convert_messages(messages, current_input)
    ELSE IF variant = "ollama" THEN OllamaLLM_convert_messages(messages, current_input)
    ELSE IF variant = "openai" THEN OpenAILLM_convert_messages(messages, current_input)
    ELSE providers_OpenAILLM_convert_messages(messages, current_input)

Normalize(variant, messages, current_input) ==
    /\ wire.what = "none"
    /\ LET r == convert_messages(variant, messages, current_input)
       IN  wire' = [wire EXCEPT !.what = "convert_messages",
                                !.variant = variant,
                                !.messages = messages,
                                !.input = current_input,
                                !.error = r.error,
                                !.out = r.out]
    /\ UNCHANGED <<graphVars, built, loaded, standalone>>

\* await MockLLM().generate_response(messages, current_input), which
\* reads current_input.blocks
Complete(messages, current_input) ==
    /\ wire.what = "none"
    /\ wire' = [wire EXCEPT !.what = "generate_response",
                            !.variant = "mock",
                            !.messages = messages,
                            !.input = current_input,
                            !.error = IF current_input.present THEN None
                                      ELSE "AttributeError",
                            !.reply = IF current_input.present
                                      THEN MockReply(messages, current_input)
                                      ELSE ""]
    /\ UNCHANGED <<graphVars, built, loaded, standalone>>

\* The arguments and the environments of the constructors.
OllamaArgs ==
    {Settings(model, None, base_url, timeout) :
        model \in {None, "m1"}, base_url \in {None, "http://arg"},
        timeout \in {NoTimeout, 5}}

OpenAIArgs ==
    {Settings(a.model, api_key, a.base_url, a.timeout) :
        a \in OllamaArgs, api_key \in {None, "key"}}

Envs ==
    {Env(model, api_key, base_url, timeout) :
        model \in {None, "env-model"}, api_key \in {None, "env-key"},
        base_url \in {None, "http://env"}, timeout \in {None, "60"}}

\* OllamaLLM(**args) or OpenAILLM(**args) in the environment env
Construct(variant, args, env) ==
    /\ wire.what = "none"
    /\ LET r == IF variant = "ollama" THEN OllamaLLM_init(args, env)
                ELSE OpenAILLM_init(args, env)
       IN  wire' = [wire EXCEPT !.what = "__init__",
                                !.variant = variant,
                                !.args = args,
                                !.env = env,
                                !.error = r.error,
                                !.cfg = r.cfg]
    /\ UNCHANGED <<graphVars, built, loaded, standalone>>

\* The keywords a caller gives to a factory.
FactoryArgs ==
    {NoSettings, Settings("m1", None, None, 5), Settings(None, "key", "http://arg", NoTimeout)}

Factories == {"llm", "core.providers"}

\* create_llm(provider, **args) of a factory, in an environment
CreateLLM(factory, provider, llm_name, args, env) ==
    /\ wire.what = "none"
    /\ LET r == IF factory = "llm" THEN create_llm(provider, llm_name, args, env)
                ELSE providers_create_llm(provider, llm_name, args, env)
       IN  wire' = [wire EXCEPT !.what = "create_llm",
                                !.factory = factory,
                                !.provider = provider,
                                !.llm_name = llm_name,
                                !.args = args,
                                !.env = env,
                                !.error = r.error,
                                !.variant = r.variant,
                                !.cfg = r.cfg]
    /\ UNCHANGED <<graphVars, built, loaded, standalone>>

InitAdapter == Init /\ llm = "mock" /\ max_concurrent = 1

\* One call is made on one adapter.
NextAdapter ==
    /\ wire.what = "none"
    /\ \/ \E variant \in Variants, messages \in Histories, current_input \in Inputs :
              Normalize(variant, messages, current_input)
       \/ \E messages \in Histories, current_input \in Inputs :
              Complete(messages, current_input)
       \/ \E args \in OllamaArgs, env \in Envs : Construct("ollama", args, env)
       \/ \E args \in OpenAIArgs, env \in Envs : Construct("openai", args, env)
       \/ \E factory \in Factories, provider \in Names \cup {None},
             llm_name \in Names \cup {None}, args \in FactoryArgs, env \in Envs :
              CreateLLM(factory, provider, llm_name, args, env)

SpecAdapter == InitAdapter /\ [][NextAdapter]_vars

\* ------------------------------------------------------- property helpers
Started(n) == calls[n].pc \in InFlight \cup Finished

\* The conversation a call that has been made is about.
ConvOf(n) == IF Truthy(calls[n].conv_id) THEN calls[n].conv_id ELSE new_id(n)

AllConvIds == NamedIds \cup {new_id(n) : n \in CallIds}

\* The number of events ev in the trace of call n.
Count(n, ev) ==
    Cardinality({i \in 1..Len(calls[n].trace) : calls[n].trace[i].ev = ev})

\* The positions of the message with msg_id id in the stored messages of conv_id.
Positions(conv_id, id) ==
    {i \in 1..Len(get_msgs(history_map, conv_id)) :
        get_msgs(history_map, conv_id)[i].msg_id = id}

RoleCount(messages, role) ==
    Cardinality({i \in 1..Len(messages) : messages[i].role = role})

\* The chat calls that hold a semaphore unit.
Held == {n \in CallIds : calls[n].pc \in InFlight}

\* ----------------------------------------------------------------- claims
\* C1: when the provider's complete fails during a chat call, the error
\* reaches the caller and the conversation's stored history (its existence
\* and its message sequence) is what it was when the call began, whenever no
\* other task changed that conversation meanwhile.
C1_FailedTurnLeavesHistory ==
    \A n \in CallIds :
        calls[n].pc = "raised" =>
            /\ calls[n].error # None
            /\ calls[n].alone =>
                  /\ exists(history_map, calls[n].state_conv_id) = calls[n].before.exists
                  /\ get_msgs(history_map, calls[n].state_conv_id) = calls[n].before.messages

\* C2: the chat calls that hold a unit (in Prepare, Generate or Persist) are
\* at most max_concurrent, and free units plus held units is max_concurrent.
C2_BoundedConcurrency ==
    /\ Cardinality(Held) <= max_concurrent
    /\ semaphore + Cardinality(Held) = max_concurrent

\* Every unit is held while another call waits for one.
C2_Witness ==
    /\ semaphore = 0
    /\ Cardinality(Held) = max_concurrent
    /\ \E n \in CallIds : calls[n].pc = "acquire"

\* C3: whenever no chat call is in flight, all max_concurrent units are free,
\* also after calls whose provider failed.
C3_NoUnitLeaked ==
    Held = {} => semaphore = max_concurrent

\* A call has failed in its provider, no call is in flight.
C3_Witness ==
    /\ Held = {}
    /\ \E n \in CallIds : calls[n].pc = "raised" /\ Count(n, "fail") = 1
    /\ \E n \in CallIds : calls[n].pc = "returned"

\* C4: every stored History holds at most one system message, and a system
\* message is its first message; a chat call appends a system message only
\* when it found no stored messages at Prepare and was given a system prompt.
C4_OneLeadingSystemMessage ==
    /\ \A c \in DOMAIN history_map :
          LET ms == history_map[c].messages
          IN  /\ RoleCount(ms, "system") <= 1
              /\ \A i \in 1..Len(ms) : ms[i].role = "system" => i = 1
    /\ \A n \in CallIds :
          Count(n, "system") > 0 =>
              /\ Truthy(calls[n].system_prompt)
              /\ calls[n].before.messages = <<>>
              /\ Count(n, "system") = 1

\* Two calls on one conversation were both given a system prompt and both
\* stored their turn; the History begins with the only system message.
C4_Witness ==
    \E n, m \in CallIds :
        /\ n # m
        /\ calls[n].pc = "returned" /\ calls[m].pc = "returned"
        /\ calls[n].state_conv_id = calls[m].state_conv_id
        /\ Truthy(calls[n].system_prompt) /\ Truthy(calls[m].system_prompt)
        /\ Count(n, "system") = 1 /\ Count(m, "system") = 0
        /\ Count(m, "user") = 1
        /\ LET ms == get_msgs(history_map, calls[n].state_conv_id)
           IN  Len(ms) >= 4 /\ ms[1].role = "system" /\ RoleCount(ms, "system") = 1

\* The chat calls made on conversation c.
CallsOn(c) == {n \in CallIds : calls[n].pc # "notyet" /\ ConvOf(n) = c}

\* Every call made on c had content, has returned with a non-empty reply, and
\* c was not evicted since the first of them began.
AllSucceeded(c) ==
    /\ CallsOn(c) # {}
    /\ \A n \in CallsOn(c) :
          /\ calls[n].pc = "returned"
          /\ HasInput(calls[n].content)
          /\ Truthy(calls[n].response)
          /\ ~calls[n].evicted

\* C5: once every chat call with content on one conversation has returned
\* with a non-empty reply, with no evict in between, the History holds
\* exactly one user and one assistant message per call: that call's content
\* and that call's reply.
C5_NoLostOrDuplicatedMessage ==
    \A c \in AllConvIds :
        AllSucceeded(c) =>
            /\ exists(history_map, c)
            /\ RoleCount(history_map[c].messages, "user") = Cardinality(CallsOn(c))
            /\ RoleCount(history_map[c].messages, "assistant") = Cardinality(CallsOn(c))
            /\ \A n \in CallsOn(c) :
                  /\ Cardinality(Positions(c, new_msg_id(n, 2))) = 1
                  /\ Cardinality(Positions(c, new_msg_id(n, 3))) = 1
                  /\ \A i \in Positions(c, new_msg_id(n, 2)) :
                        history_map[c].messages[i] =
                            Message(new_msg_id(n, 2), "user", StructContent(calls[n].content))
                  /\ \A i \in Positions(c, new_msg_id(n, 3)) :
                        history_map[c].messages[i] =
                            Message(new_msg_id(n, 3), "assistant", StrContent(calls[n].response))

\* Two calls on one conversation overlapped: n stored its turn while m was
\* inside its body (m saw a History without n's messages, which now precede
\* its own).
C5_Witness ==
    \E c \in AllConvIds : \E n, m \in CallsOn(c) :
        /\ AllSucceeded(c)
        /\ n # m
        /\ calls[m].before.exists
        /\ \A i \in 1..Len(calls[m].before.messages) :
              calls[m].before.messages[i].msg_id # new_msg_id(n, 2)
        /\ \E i \in Positions(c, new_msg_id(n, 2)), j \in Positions(c, new_msg_id(m, 2)) : i < j

\* The place of an event in a turn: Prepare's append, the provider's call,
\* its outcome, Persist's two appends.
Rank(ev) ==
    CASE ev = "system" -> 1
      [] ev = "invoke" -> 2
      [] ev = "return" -> 3
      [] ev = "fail" -> 3
      [] ev = "user" -> 4
      [] ev = "assistant" -> 5

\* The place of a call's position in the pipeline.
PcRank(pc) ==
    CASE pc = "notyet" -> 0
      [] pc = "acquire" -> 1
      [] pc = "prepare" -> 2
      [] pc = "generate" -> 3
      [] pc = "generating" -> 4
      [] pc = "persist" -> 5
      [] pc = "return" -> 6
      [] pc = "returned" -> 7
      [] pc = "raised" -> 7

\* What call n did happened in the order Prepare, Generate, Persist, each
\* thing once: system message, provider called, provider returned, user
\* message, assistant message; and the messages it stored lie in that order
\* in the History.
TurnOrdered(n) ==
    /\ \A i, j \in 1..Len(calls[n].trace) :
          i < j => Rank(calls[n].trace[i].ev) < Rank(calls[n].trace[j].ev)
    /\ Count(n, "user") > 0 => Count(n, "invoke") = 1 /\ Count(n, "return") = 1
    /\ Count(n, "assistant") > 0 => Count(n, "user") = 1
    /\ \A k1, k2 \in 1..3 :
          k1 < k2 =>
              \A i \in Positions(calls[n].state_conv_id, new_msg_id(n, k1)),
                 j \in Positions(calls[n].state_conv_id, new_msg_id(n, k2)) : i < j

\* C6: within one chat call the stages run once each in the order Prepare,
\* Generate, Persist: the system message is appended before the provider is
\* called, the provider has returned before the user message is appended, the
\* user message is appended before the assistant message, and no call ever
\* moves back to an earlier stage.
C6_StagesInOrder ==
    /\ [](\A n \in CallIds : TurnOrdered(n))
    /\ [][\A n \in CallIds :
            calls'[n].pc # calls[n].pc => PcRank(calls'[n].pc) > PcRank(calls[n].pc)]_vars

\* A call has gone through all three stages and stored all three messages.
C6_Witness ==
    \E n \in CallIds :
        /\ calls[n].pc = "returned"
        /\ Len(calls[n].trace) = 5
        /\ Positions(calls[n].state_conv_id, new_msg_id(n, 1)) = {1}
        /\ Positions(calls[n].state_conv_id, new_msg_id(n, 2)) = {2}
        /\ Positions(calls[n].state_conv_id, new_msg_id(n, 3)) = {3}

\* C7: each chat call calls the provider at most once, exactly once when
\* content was supplied (as soon as Generate is over), and after a failed
\* call of the provider the chat call does nothing more.
C7_ProviderCalledOnce ==
    \A n \in CallIds :
        /\ Count(n, "invoke") <= 1
        /\ (calls[n].content # NoContent /\ PcRank(calls[n].pc) >= 4) => Count(n, "invoke") = 1
        /\ calls[n].content = NoContent => Count(n, "invoke") = 0
        /\ Count(n, "fail") > 0 =>
              /\ calls[n].pc = "raised"
              /\ calls[n].trace[Len(calls[n].trace)].ev = "fail"
              /\ Count(n, "fail") = 1

\* The provider of a call with content failed; it was called once.
C7_Witness ==
    \E n \in CallIds :
        /\ calls[n].pc = "raised"
        /\ calls[n].content # NoContent
        /\ Count(n, "invoke") = 1
        /\ Count(n, "fail") = 1

\* C8: a chat call with no content never calls the provider, returns a null
\* reply and stores no user and no assistant message.
C8_NoContentNoGeneration ==
    \A n \in CallIds :
        (calls[n].pc # "notyet" /\ calls[n].content = NoContent) =>
            /\ Count(n, "invoke") = 0
            /\ Count(n, "user") = 0
            /\ Count(n, "assistant") = 0
            /\ calls[n].response = None
            /\ calls[n].pc # "raised"
            /\ \A c \in DOMAIN history_map :
                  /\ Positions(c, new_msg_id(n, 2)) = {}
                  /\ Positions(c, new_msg_id(n, 3)) = {}

\* A chat call with a system prompt and no content has returned: it stored
\* the system message only.
C8_Witness ==
    \E n \in CallIds :
        /\ calls[n].pc = "returned"
        /\ calls[n].content = NoContent
        /\ Count(n, "system") = 1
        /\ calls[n].message_count = 1

\* C9: the message_count chat returns is the number of messages stored for
\* the returned conversation id when Persist has completed, also for a call
\* that stores nothing.
C9_MessageCountIsStoredCount ==
    [][\A n \in CallIds :
          (calls[n].pc = "return" /\ calls'[n].pc = "returned") =>
              calls'[n].message_count =
                  Len(get_msgs(history_map', calls'[n].state_conv_id))]_vars

\* C10: sequential chat calls with content on one conversation on the Mock
\* provider, the first with a system prompt on a fresh id: the k-th call
\* returns message_count = 1 + 2k, the History holds one system message, and
\* no message is stored twice.
C10_SequentialCounts ==
    \A n \in CallIds :
        calls[n].pc = "returned" =>
            /\ calls[n].message_count = 1 + 2 * n
            /\ LET ms == get_msgs(history_map, calls[n].state_conv_id)
               IN  /\ RoleCount(ms, "system") = 1
                   /\ Cardinality({ms[i].msg_id : i \in 1..Len(ms)}) = Len(ms)
                   /\ RoleCount(ms, "user") = RoleCount(ms, "assistant")

\* The third call, given a system prompt again, has returned 7.
C10_Witness ==
    /\ calls[3].pc = "returned"
    /\ calls[3].message_count = 7
    /\ Truthy(calls[3].system_prompt)
    /\ calls[2].message_count = 5
    /\ calls[1].message_count = 3

\* ------------------------------------------- claims on the HistoryManager
\* The step is a save_msg(conv_id, ...) by the caller.
SaveStep(conv_id) ==
    saved' = saved + 1 /\ last'.op = "save_msg" /\ last'.conv_id = conv_id

\* The step is a cleanup_memory(conv_id), by the caller or at the end of end.
EvictStep(conv_id) ==
    \/ last'.op = "cleanup_memory" /\ last'.conv_id = conv_id /\ saved' = saved
       /\ ends' = ends /\ clock' = clock
    \/ \E e \in EndIds :
          /\ ends[e].fn = "end" /\ ends[e].conv_id = conv_id
          /\ ends[e].pc \in {"start", "closing"} /\ ends'[e].pc = "returned"

\* C11: a conversation has a History exactly from a save_msg on its id to the
\* next cleanup_memory on its id: a History appears only in a save_msg step
\* on that id and is there after every such step, it disappears only in a
\* cleanup_memory step on that id and is gone after every such step; no read
\* and no export step creates or removes one.
C11_ExistsFromSaveToEvict ==
    [][\A id \in StoreIds :
          /\ (~exists(history_map, id) /\ exists(history_map', id)) => SaveStep(id)
          /\ (exists(history_map, id) /\ ~exists(history_map', id)) => EvictStep(id)
          /\ SaveStep(id) => exists(history_map', id)
          /\ EvictStep(id) => ~exists(history_map', id)]_vars

\* A conversation was saved to and evicted, another was saved to and
\* exported, and only the second has a History.
C11_Witness ==
    /\ saved = 2
    /\ DOMAIN history_map = {"c1"}
    /\ get_length(history_map, "c1") = 1
    /\ last.op = "cleanup_memory" /\ last.conv_id = "c2"
    /\ \E e \in EndIds : /\ ends[e].fn = "save_conversation_to_file"
                         /\ ends[e].conv_id = "c1"
                         /\ ends[e].pc = "returned"

IsPrefix(s, t) == Len(s) <= Len(t) /\ \A i \in 1..Len(s) : s[i] = t[i]

\* C12: histories are append-only: in every step that does not evict a
\* conversation, the messages stored for it before the step are a prefix of
\* the messages stored for it after the step (so the same holds between any
\* two states with no eviction of that conversation in between).
C12_AppendOnly ==
    [][\A id \in StoreIds :
          (exists(history_map, id) => exists(history_map', id))
              => IsPrefix(get_msgs(history_map, id), get_msgs(history_map', id))]_vars

\* Two messages were saved to one conversation, which was exported and never
\* evicted.
C12_Witness ==
    /\ get_length(history_map, "c1") = 2
    /\ history_map["c1"].messages[1].msg_id = 1
    /\ history_map["c1"].messages[2].msg_id = 2
    /\ \E e \in EndIds : /\ ends[e].fn = "save_conversation_to_file"
                         /\ ends[e].conv_id = "c1"
                         /\ ends[e].pc = "returned"
                         /\ Len(ends[e].data[1].messages) = 1

\* C13: every save_msg(id, m) on a known id makes get_length(id) one more
\* than it was, and after every save_msg(id, m), known id or not, m is the
\* last of get_msgs(id) and the messages before it are those stored before.
C13_SaveAppendsOne ==
    [][\A id \in StoreIds :
          SaveStep(id) =>
              LET old == get_msgs(history_map, id)
                  new == get_msgs(history_map', id)
              IN  /\ exists(history_map, id) =>
                         get_length(history_map', id) = get_length(history_map, id) + 1
                  /\ Len(new) = Len(old) + 1
                  /\ new[Len(new)] = Message(saved', "user", StrContent("m"))
                  /\ SubSeq(new, 1, Len(new) - 1) = old]_vars

\* A save_msg on a known id has just been made.
C13_Witness ==
    /\ last.op = "save_msg" /\ last.conv_id = "c2"
    /\ saved = 2
    /\ get_length(history_map, "c2") = 2

\* The step is the read op(conv_id) by the caller.
ReadStep(op, conv_id) ==
    /\ last'.op = op /\ last'.conv_id = conv_id
    /\ saved' = saved /\ ends' = ends /\ clock' = clock

\* C14: exists, get_msgs and get_length return a value for every id: for an
\* id without a History they return false, the empty sequence and -1, for an
\* id with one they return true, its messages and their number; none of the
\* three changes the store (or the export files).
C14_ReadsTotalAndPure ==
    [][\A id \in StoreIds :
          /\ ReadStep("exists", id) =>
                /\ last'.result = (id \in DOMAIN history_map)
                /\ history_map' = history_map /\ files' = files
          /\ ReadStep("get_msgs", id) =>
                /\ last'.result = IF id \in DOMAIN history_map
                                  THEN history_map[id].messages ELSE <<>>
                /\ history_map' = history_map /\ files' = files
          /\ ReadStep("get_length", id) =>
                /\ last'.result = IF id \in DOMAIN history_map
                                  THEN Len(history_map[id].messages) ELSE -1
                /\ history_map' = history_map /\ files' = files]_vars

\* get_length of an id that was saved to and evicted has returned -1, while
\* another conversation has a History.
C14_Witness ==
    /\ last = [op |-> "get_length", conv_id |-> "c1", result |-> -1]
    /\ saved = 2
    /\ DOMAIN history_map = {"c2"}

\* C15: when save_conversation_to_file(id) starts on an id that has no
\* History, it raises ValueError (the not-found error) at once, and neither
\* the export files nor the store change; nothing happens in it afterwards.
C15_ExportUnknownFails ==
    [][\A e \in EndIds :
          /\ (/\ ends[e].pc = "start" /\ ends[e].save
              /\ ~exists(history_map, ends[e].conv_id)
              /\ ends'[e] # ends[e])
                => /\ ends'[e].pc = "raised"
                   /\ ends'[e].error = "ValueError"
                   /\ ends'[e].file_path = None
                   /\ files' = files
                   /\ history_map' = history_map
          /\ ends[e].pc = "raised" => ends'[e] = ends[e]]_vars

\* An export of a conversation that was saved to and evicted has failed with
\* ValueError, and no file of that conversation exists.
C15_Witness ==
    /\ saved = 2
    /\ DOMAIN history_map = {"c2"}
    /\ "c1" \notin DOMAIN files
    /\ \E e \in EndIds : /\ ends[e].fn = "save_conversation_to_file"
                         /\ ends[e].conv_id = "c1"
                         /\ ends[e].pc = "raised"
                         /\ ends[e].error = "ValueError"

\* C16: whatever evictions and end calls are interleaved with it, every
\* save_conversation_to_file that has finished, called directly or by end
\* with save, has either returned the path of its file or raised ValueError
\* (the not-found error), never an error of another kind.
C16_ExportFailsOnlyNotFound ==
    \A e \in EndIds :
        ends[e].save =>
            /\ ends[e].pc = "returned" => ends[e].file_path = FilePath(ends[e].conv_id)
            /\ ends[e].pc = "raised" => ends[e].error = "ValueError"

\* C17: save_conversation_to_file leaves the store as it is: no step of it,
\* from its start to its return, changes any History (existence, messages,
\* created_at, updated_at), and when it reads the History to write, the
\* History is in the store.
C17_ExportLeavesStore ==
    [][\A e \in EndIds :
          (/\ ends[e].fn = "save_conversation_to_file"
           /\ ends[e].pc \in {"start", "opening", "writing", "closing"}
           /\ ends'[e] # ends[e])
             => /\ history_map' = history_map
                /\ ends'[e].pc = "writing" =>
                      /\ exists(history_map', ends[e].conv_id)
                      /\ ends'[e].data =
                            <<model_dump_json(history_map'[ends[e].conv_id])>>]_vars

\* An export has returned, and the conversation, saved to at two different
\* times, is in the store as it was written.
C17_Witness ==
    /\ exists(history_map, "c1")
    /\ history_map["c1"].created_at = 0
    /\ history_map["c1"].updated_at = 1
    /\ Len(history_map["c1"].messages) = 2
    /\ "c1" \in DOMAIN files
    /\ files["c1"] = <<model_dump_json(history_map["c1"])>>
    /\ \E e \in EndIds : /\ ends[e].fn = "save_conversation_to_file"
                         /\ ends[e].conv_id = "c1"
                         /\ ends[e].pc = "returned"
                         /\ ends[e].file_path = FilePath("c1")

\* C18: cleanup_memory(id), called directly or at the end of end, removes
\* the History of id and nothing else: after it exists(id) is false,
\* get_length(id) is -1 and get_msgs(id) is empty, every other conversation
\* has the History it had, the export files are untouched, and when id had
\* no History the store is unchanged.
C18_EvictRemovesOnlyId ==
    [][\A id \in StoreIds :
          EvictStep(id) =>
              /\ ~exists(history_map', id)
              /\ get_length(history_map', id) = -1
              /\ get_msgs(history_map', id) = <<>>
              /\ DOMAIN history_map' = DOMAIN history_map \ {id}
              /\ \A other \in DOMAIN history_map' : history_map'[other] = history_map[other]
              /\ files' = files
              /\ ~exists(history_map, id) => history_map' = history_map]_vars

\* One of two conversations with a History has been evicted by
\* cleanup_memory.
C18_Witness ==
    /\ last.op = "cleanup_memory" /\ last.conv_id = "c1"
    /\ saved = 2
    /\ DOMAIN history_map = {"c2"}
    /\ Len(history_map["c2"].messages) = 1
    /\ history_map["c2"].messages[1].msg_id = 1

\* C19: end(id, save) exports before it evicts.  When it returns with save,
\* the export is done, the file of id holds every message that was stored for
\* id, the path is returned and id has no History; when it returns without
\* save, no file was written, None is returned and id has no History; when
\* the export raises, end raises that error.
C19_EndExportsThenEvicts ==
    [][\A e \in EndIds :
          (ends[e].fn = "end" /\ ends[e].pc # "notyet" /\ ends'[e] # ends[e]) =>
              LET id == ends[e].conv_id
              IN  /\ (ends'[e].pc = "returned" /\ ends[e].save) =>
                         /\ ends[e].pc = "closing"
                         /\ ends'[e].file_path = FilePath(id)
                         /\ id \in DOMAIN files'
                         /\ Len(files'[id]) = 1
                         /\ \A i \in 1..Len(get_msgs(history_map, id)) :
                               \E j \in 1..Len(files'[id][1].messages) :
                                   files'[id][1].messages[j] = DumpMessage(get_msgs(history_map, id)[i])
                         /\ ~exists(history_map', id)
                  /\ (ends'[e].pc = "returned" /\ ~ends[e].save) =>
                         /\ files' = files
                         /\ ends'[e].file_path = None
                         /\ ~exists(history_map', id)
                  /\ ends'[e].pc = "raised" =>
                         /\ ends[e].save
                         /\ ends'[e].error \in {"ValueError", "KeyError"}
                         /\ ends'[e].file_path = None]_vars

\* ------------------------------------------------------ claims on the gate
\* C20: under fair scheduling, with provider calls that return or raise,
\* every chat call that was invoked returns or raises, whatever the capacity
\* (1 included) and however many calls wait for a unit.
C20_EveryCallFinishes ==
    \A n \in CallIds : (calls[n].pc = "acquire") ~> (calls[n].pc \in Finished)

\* With capacity 1, both calls have returned on one conversation and the
\* message of the second call is stored before that of the first: the first
\* call, invoked first, waited for the unit all through the body of the
\* second.
C20_Witness ==
    /\ max_concurrent = 1
    /\ calls[1].pc = "returned" /\ calls[2].pc = "returned"
    /\ calls[1].state_conv_id = "c1" /\ calls[2].state_conv_id = "c1"
    /\ \E i, j \in 1..Len(get_msgs(history_map, "c1")) :
          /\ i < j
          /\ get_msgs(history_map, "c1")[i].msg_id = new_msg_id(2, 2)
          /\ get_msgs(history_map, "c1")[j].msg_id = new_msg_id(1, 2)

\* The time call n began its Generate stage (its sleep).
GenerateStart(n) == calls[n].wake - Delay

Generated(n) == calls[n].pc \in {"generating", "persist", "return", "returned"}

\* C21: with capacity 2 and three chat calls started together, each sleeping
\* Delay in its Generate stage: never more than two calls are in the Generate
\* stage at once, two calls begin it at time 0, every other call begins it
\* no earlier than Delay (when a unit was released), and when all calls
\* have returned the time is at least 1.5 Delay and less than 3 Delay.
C21_ThirdCallWaits ==
    /\ Cardinality({n \in CallIds : calls[n].pc = "generating"}) <= 2
    /\ Cardinality({n \in CallIds : Generated(n) /\ GenerateStart(n) = 0}) <= 2
    /\ \A n \in CallIds : Generated(n) /\ GenerateStart(n) # 0 => GenerateStart(n) >= Delay
    /\ (\A n \in CallIds : calls[n].pc \in Finished) =>
          /\ \A n \in CallIds : calls[n].pc = "returned"
          /\ Cardinality({n \in CallIds : GenerateStart(n) = 0}) = 2
          /\ 2 * clock >= 3 * Delay
          /\ clock < 3 * Delay

\* All three calls have returned, two of them after sleeping together.
C21_Witness ==
    /\ \A n \in CallIds : calls[n].pc = "returned"
    /\ Cardinality(CallIds) = 3
    /\ \E a, b, c \in CallIds :
          /\ a # b /\ GenerateStart(a) = 0 /\ GenerateStart(b) = 0
          /\ GenerateStart(c) = Delay
    /\ clock = 2 * Delay

\* C22: a History that holds one message, the one whose save_msg created
\* it, has created_at equal to updated_at.
C22_CreatedEqualsUpdated ==
    \A id \in DOMAIN history_map :
        Len(history_map[id].messages) = 1 =>
            history_map[id].created_at = history_map[id].updated_at

\* ------------------------------------- claims on Content and ContentBlock
\* The kind of block an item stands for.
ItemKind(item) == IF item.form = "str" THEN "text" ELSE item.key

\* Block blk has the kind and the payload that were asked for.
HasPayload(blk, kind, str, json) ==
    /\ blk.type = kind
    /\ IF kind = "json" THEN blk.json = json ELSE blk.content = str

\* C23: a Content made by the constructor from accepted items has one block
\* per item, the i-th block with the kind and payload of the i-th item; and
\* every add_text, add_image and add_json that is accepted leaves the blocks
\* there were in place and puts one block with its kind and payload after
\* them (one that raises leaves the blocks as they were).
C23_BlocksInInputOrder ==
    /\ [](built.what = "Content" /\ built.op = "Content" =>
            /\ Len(built.blocks) = Len(built.items)
            /\ \A i \in 1..Len(built.items) :
                  HasPayload(built.blocks[i], ItemKind(built.items[i]),
                             built.items[i].str, built.items[i].json))
    /\ [][built'.op \in {"add_text", "add_image", "add_json"} =>
            IF built'.error # None THEN built'.blocks = built.blocks
            ELSE /\ Len(built'.blocks) = Len(built.blocks) + 1
                 /\ SubSeq(built'.blocks, 1, Len(built.blocks)) = built.blocks
                 /\ HasPayload(built'.blocks[Len(built'.blocks)],
                               IF built'.op = "add_text" THEN "text"
                               ELSE IF built'.op = "add_image" THEN "image" ELSE "json",
                               built'.args.str, built'.args.json)]_vars

\* A Content made from a bare string and a pair of a json map with extras
\* has got an image block added after its two blocks.
C23_Witness ==
    /\ built.what = "Content" /\ built.op = "add_image" /\ built.error = None
    /\ Len(built.items) = 2
    /\ built.items[1].form = "str" /\ built.items[2].tuple = 2
    /\ built.items[2].key = "json"
    /\ Len(built.blocks) = 3
    /\ built.blocks[1].type = "text" /\ built.blocks[2].type = "json"
    /\ built.blocks[3].type = "image"

\* C24: no ContentBlock made by its constructor, by the Content constructor
\* or an add method, or changed by set_extra, has one of the reserved keys
\* type and content in its extras.
C24_NoReservedKeyInExtras ==
    \A i \in 1..Len(built.blocks) :
        DOMAIN built.blocks[i].extras \cap {"type", "content"} = {}

ExtraKeys == {"style", "type", "color", "resolved_path"}

\* C25: a ContentBlock made with keywords other than type, content and
\* extras has each of them in extras under its name with its value, next to
\* the entries of the extras keyword that no keyword replaces, and has no
\* other top-level field than those of the class; and for every block,
\* has_extra(k) is true exactly for the keys of extras and get_extra(k, d)
\* is the value stored under k, or d when there is none.
C25_KeywordsGoToExtras ==
    /\ (built.what = "ContentBlock" /\ built.op = "ContentBlock") =>
          LET blk == built.blocks[1]
              kw == built.args.kwargs
              given == IF kw.extrasGiven THEN kw.extras ELSE <<>>
          IN  /\ DOMAIN blk = {"type", "content", "json", "extras"}
              /\ blk.type = built.args.type
              /\ DOMAIN blk.extras = DOMAIN kw.other \cup DOMAIN given
              /\ \A k \in DOMAIN kw.other : blk.extras[k] = kw.other[k]
              /\ \A k \in DOMAIN given \ DOMAIN kw.other : blk.extras[k] = given[k]
    /\ \A i \in 1..Len(built.blocks) : \A k \in ExtraKeys :
          LET blk == built.blocks[i]
          IN  /\ has_extra(blk, k) <=> k \in DOMAIN blk.extras
              /\ get_extra(blk, k, "default") =
                    IF k \in DOMAIN blk.extras THEN blk.extras[k] ELSE "default"

\* A ContentBlock was made with style="bold" and extras={"style": "italic"}:
\* its extras hold the keyword's value.
C25_Witness ==
    /\ built.what = "ContentBlock" /\ built.op = "ContentBlock"
    /\ built.args.kwargs = KwargsWithExtras(Italic, Style)
    /\ has_extra(built.blocks[1], "style")
    /\ get_extra(built.blocks[1], "style", "default") = "bold"
    /\ ~has_extra(built.blocks[1], "color")

FactoryVariants == {"mock", "ollama", "openai"}

\* The content of the wire message an adapter builds for an input of the
\* one block blk.
Single(variant, blk) == convert_messages(variant, <<>>, Content(<<blk>>)).out[1].content

\* The parts of a content, a string being one text part.
PartList(content) == IF content.isArray THEN content.parts ELSE <<TextPart(content.str)>>

\* content is made of what the adapter builds for each block alone, in the
\* order of the blocks: the parts of a list, the pieces of a string.
InBlockOrder(variant, blocks, content) ==
    IF variant = "openai"
    THEN IF blocks = <<>> THEN content = WireStr("")
         ELSE PartList(content) =
                  [i \in 1..Len(blocks) |-> PartList(Single(variant, blocks[i]))[1]]
    ELSE content = WireStr(join([i \in 1..Len(blocks) |-> Single(variant, blocks[i]).str], 1))

CloudVariants == {"openai", "providers.openai"}

\* The structured messages of the last call, the input included, each with
\* the content of its wire message.
Structured ==
    {[blocks |-> wire.messages[i].content.blocks, content |-> wire.out[i].content] :
        i \in {k \in 1..Len(wire.messages) : ~wire.messages[k].content.isStr}}
    \cup (IF wire.input.present
          THEN {[blocks |-> wire.input.blocks,
                 content |-> wire.out[Len(wire.messages) + 1].content]}
          ELSE {})

HasBlock(blocks, types) == \E i \in 1..Len(blocks) : blocks[i].type \in types

\* The message mixes text with an image or a JSON block.
Mixes(blocks) == HasBlock(blocks, {"text"}) /\ HasBlock(blocks, {"image", "json"})

Entry(i, blk) ==
    " item " \o ToString(i) \o ": " \o
    (IF blk.type = "json" THEN "json with " \o ToString(Len(blk.json)) \o " fields"
     ELSE blk.type \o " - " \o blk.content)

\* The entries of the first n blocks, in order.
RECURSIVE Entries(_, _)
Entries(blocks, n) ==
    IF n = 0 THEN "" ELSE Entries(blocks, n - 1) \o Entry(n, blocks[n])

\* The messages of a history a user sent.
UserMessages(messages) == SelectSeq(messages, LAMBDA msg : msg.role = "user")

\* C29: the reply of MockLLM.generate_response is a function of the history
\* and the input: after the header it lists the blocks of the input in
\* block order, numbered from 1, a text or image entry with its payload and
\* a json entry with its number of top-level fields; with u the number of
\* user messages of the history, it ends with the interaction counter
\* u + 1 exactly when u > 0, and is the reply for an empty history when
\* u = 0; histories with the same u give the same reply.
C29_MockReplyListsBlocks ==
    (wire.what = "generate_response" /\ wire.error = None) =>
        LET blocks == wire.input.blocks
            u == Len(UserMessages(wire.messages))
            listing == "analysed in order:" \o Entries(blocks, Len(blocks))
        IN  /\ MockReply(<<>>, wire.input) = listing
            /\ u = 0 => wire.reply = listing
            /\ u > 0 => wire.reply = listing \o " interaction #" \o ToString(u + 1)
            /\ u > 0 => wire.reply # listing
            /\ \A other \in Histories :
                   Len(UserMessages(other)) = u => MockReply(other, wire.input) = wire.reply

\* generate_response returned for a history of a user and an assistant
\* message and an input of a json, an image and a text block.
C29_Witness ==
    /\ wire.what = "generate_response" /\ wire.error = None
    /\ Len(wire.messages) = 2
    /\ Len(UserMessages(wire.messages)) = 1
    /\ Len(wire.input.blocks) = 3
    /\ wire.input.blocks[1].type = "json" /\ Len(wire.input.blocks[1].json) = 2
    /\ wire.input.blocks[2].type = "image"
    /\ wire.input.blocks[3].type = "text"
    /\ wire.reply # MockReply(<<>>, wire.input)

\* C30: after OllamaLLM(...) or OpenAILLM(...) is built, each of model,
\* base_url and timeout, on its own, is the argument of the constructor
\* when that argument is given, and the value of its environment variable
\* when the argument is left out and the variable is set.
C30_ArgumentBeforeEnvironment ==
    (wire.what = "__init__" /\ wire.error = None) =>
        /\ wire.args.model # None => wire.cfg.model = wire.args.model
        /\ (wire.args.model = None /\ wire.env.model # None) =>
               wire.cfg.model = wire.env.model
        /\ wire.args.base_url # None => wire.cfg.base_url = wire.args.base_url
        /\ (wire.args.base_url = None /\ wire.env.base_url # None) =>
               wire.cfg.base_url = wire.env.base_url
        /\ wire.args.timeout # NoTimeout => wire.cfg.timeout = wire.args.timeout
        /\ (wire.args.timeout = NoTimeout /\ wire.env.timeout # None) =>
               wire.cfg.timeout = int(wire.env.timeout)

\* The provider names the factories document.
SupportedNames == {"mock", "ollama", "openai", "oai"}

\* C31: create_llm returns the mock adapter when no provider name is given
\* and the environment names none; for a supported name the adapter it
\* returns is the one of that name; for any other name it raises the
\* configuration error (ValueError) and builds no adapter.
C31_FactoryPicksByName ==
    wire.what = "create_llm" =>
        /\ (wire.provider = None /\ wire.llm_name = None) =>
               (wire.error = None /\ wire.variant = "mock")
        /\ (wire.provider \in SupportedNames /\ wire.error = None) =>
               wire.variant = Picked(wire.provider)
        /\ wire.provider \notin SupportedNames \cup {None} =>
               (wire.error = "ValueError" /\ wire.variant = "none")

\* C32: in every History every user message is directly followed by the
\* assistant message the same chat call stored: nothing comes between the
\* two appends of one _save_history, and no user message is stored without
\* its reply.
C32_UserFollowedByReply ==
    \A id \in DOMAIN history_map :
        LET msgs == get_msgs(history_map, id)
        IN  \A i \in 1..Len(msgs) :
                msgs[i].role = "user" =>
                    /\ i < Len(msgs)
                    /\ msgs[i + 1].role = "assistant"
                    /\ \E n \in CallIds :
                           /\ msgs[i].msg_id = new_msg_id(n, 2)
                           /\ msgs[i + 1].msg_id = new_msg_id(n, 3)

\* C33: once end(id, save) has returned, and as long as every chat call
\* running on id entered its body before that return, id has no History:
\* exists(id) is false, also when a chat call on id was suspended in its
\* provider call while end ran.
C33_EndedStaysAbsent ==
    \A e \in EndIds :
        (ends[e].pc = "returned" /\ ends[e].fn = "end") =>
            LET id == ends[e].conv_id
            IN  (\A n \in CallIds :
                    (calls[n].pc \in InFlight \cup Finished /\ calls[n].state_conv_id = id)
                    => e \notin calls[n].ended)
                => ~exists(history_map, id)

\* The user messages stored for the conversation of call n when its
\* _generate_response began: those stored when the call entered its body,
\* since _prepare_messages runs without suspension and stores at most a
\* system message.
UsersAtGenerateStart(n) == UserCount(calls[n].before.messages)

\* C34: the messages the provider of a chat call works on are the
\* conversation's messages as they were when the call's
\* _generate_response began, whatever other chat calls stored while the
\* provider call was suspended: the reply of the Mock carries the counter
\* 1 + u exactly when u > 0, with u the number of user messages stored at
\* that moment.
C34_ProviderSeesHistoryAtStart ==
    llm = "mock" =>
        \A n \in CallIds :
            calls[n].response # None =>
                LET u == UsersAtGenerateStart(n)
                    listing == MockReply(<<>>, calls[n].content)
                IN  calls[n].response =
                        IF u > 0 THEN listing \o " interaction #" \o ToString(u + 1)
                        ELSE listing

\* Every user message of the exported messages msgs is directly followed by
\* the assistant message of its turn.
TurnsComplete(msgs) ==
    \A i \in 1..Len(msgs) :
        msgs[i].role = "user" =>
            /\ i < Len(msgs)
            /\ msgs[i + 1].role = "assistant"
            /\ \E n \in CallIds :
                   /\ msgs[i].msg_id = new_msg_id(n, 2)
                   /\ msgs[i + 1].msg_id = new_msg_id(n, 3)

\* C35: the messages save_conversation_to_file writes are the stored
\* messages of the conversation at one instant of the call (the document is
\* built in one step, from the History as it is then, and written as it
\* was built), and under every interleaving with chat calls the file never
\* holds the user message of a turn without the assistant message of that
\* turn.
C35_ExportIsSnapshot ==
    /\ [](\A id \in DOMAIN files :
             files[id] # <<>> => TurnsComplete(files[id][1].messages))
    /\ [][\A e \in EndIds :
             LET id == ends[e].conv_id
             IN  /\ (ends[e].pc = "opening" /\ ends'[e].pc = "writing") =>
                        ends'[e].data[1].messages =
                            [i \in 1..Len(get_msgs(history_map, id)) |->
                                DumpMessage(get_msgs(history_map, id)[i])]
                 /\ (ends[e].pc = "writing" /\ ends'[e].pc = "closing") =>
                        files'[id] = ends[e].data]_vars

\* The conversation ids a chat or end call can name.
GraphIds == NamedIds \cup {new_id(n) : n \in CallIds}

\* What the store holds for id: whether a History exists, its messages and
\* its timestamps.
HistoryOf(m, id) ==
    IF exists(m, id)
    THEN [exists |-> TRUE, messages |-> m[id].messages,
          created_at |-> m[id].created_at, updated_at |-> m[id].updated_at]
    ELSE [exists |-> FALSE, messages |-> <<>>, created_at |-> 0, updated_at |-> 0]

\* C36: a step of a chat call or of an end call (its export and its
\* eviction included) on conversation A leaves the History of every other
\* conversation B as it was: its existence, its messages and its timestamps,
\* under every interleaving of the calls.
C36_OtherHistoriesUntouched ==
    [][\A B \in GraphIds :
          HistoryOf(history_map', B) # HistoryOf(history_map, B) =>
              \/ \E n \in CallIds : /\ calls'[n].pc # calls[n].pc
                                     /\ calls'[n].state_conv_id = B
              \/ \E e \in EndIds : /\ ends'[e].pc # ends[e].pc
                                    /\ ends'[e].conv_id = B]_vars

\* Two conversations were built by two chat calls, an end call on the first
\* has returned and evicted it, and the second still has the messages of its
\* turn.
C36_Witness ==
    /\ calls[1].pc = "returned" /\ calls[2].pc = "returned"
    /\ calls[1].state_conv_id = "uuid-1" /\ calls[2].state_conv_id = "uuid-2"
    /\ ends[1].pc = "returned" /\ ends[1].conv_id = "uuid-1"
    /\ ~exists(history_map, "uuid-1")
    /\ exists(history_map, "uuid-2")
    /\ Len(get_msgs(history_map, "uuid-2")) = 3

\* C37: in every reachable state get_length(id) is -1 (no History) or at
\* least 1 for every id: a History with no message is never there to be
\* seen, because the step that creates a History is a save_msg on that id
\* and leaves its first message in it.
C37_NoEmptyHistory ==
    /\ [](\A id \in StoreIds :
             \/ get_length(history_map, id) = -1
             \/ get_length(history_map, id) >= 1)
    /\ [][\A id \in StoreIds :
             (~exists(history_map, id) /\ exists(history_map', id)) =>
                 /\ last'.op = "save_msg" /\ last'.conv_id = id
                 /\ get_length(history_map', id) = 1]_vars

\* save_msg has just created the History of c1 with its first message
\* (get_length 1), and c2 has no History (get_length -1).
C37_Witness ==
    /\ last.op = "save_msg" /\ last.conv_id = "c1"
    /\ saved = 1
    /\ get_length(history_map, "c1") = 1
    /\ get_length(history_map, "c2") = -1

\* C38: created_at is set to the time at which save_msg creates the History
\* and stays as it is for as long as that History exists; every save_msg
\* sets updated_at to the time it is then, and updated_at never goes back;
\* and created_at <= updated_at in every reachable state.
C38_Timestamps ==
    /\ [](\A id \in StoreIds :
             exists(history_map, id) =>
                 history_map[id].created_at <= history_map[id].updated_at)
    /\ [][\A id \in StoreIds :
             /\ (~exists(history_map, id) /\ exists(history_map', id)) =>
                    /\ SaveStep(id)
                    /\ history_map'[id].created_at = clock
             /\ (exists(history_map, id) /\ exists(history_map', id)) =>
                    /\ history_map'[id].created_at = history_map[id].created_at
                    /\ history_map'[id].updated_at >= history_map[id].updated_at
             /\ SaveStep(id) =>
                    /\ exists(history_map', id)
                    /\ history_map'[id].updated_at = clock']_vars

\* A History created at time 0 has had a second message saved at time 1.
C38_Witness ==
    /\ exists(history_map, "c1")
    /\ get_length(history_map, "c1") = 2
    /\ history_map["c1"].created_at = 0
    /\ history_map["c1"].updated_at = 1
    /\ clock = 1

\* ------------------------------------- the standalone implementation (main.py)
\* main.py has a ContentBlock of its own: a type, the content (a string, or
\* a dict kept in json) and a position.
StandaloneBlock(type, content, json, position) ==
    [type |-> type, content |-> content, json |-> json, position |-> position]

\* position=None
NoPosition == 0 - 1

RECURSIVE sort_blocks(_)
\* StructuredMessageContent._sort_blocks: list.sort by position, which keeps
\* the order of the blocks of one position.
sort_blocks(blocks) ==
    IF blocks = <<>> THEN <<>>
    ELSE LET front == sort_blocks(SubSeq(blocks, 1, Len(blocks) - 1))
             blk == blocks[Len(blocks)]
         IN  SelectSeq(front, LAMBDA b : b.position <= blk.position) \o <<blk>> \o
             SelectSeq(front, LAMBDA b : b.position > blk.position)

\* StructuredMessageContent.add_text / add_image / add_json
Standalone_add(blocks, type, content, json, position) ==
    LET pos == IF position # NoPosition THEN position ELSE Len(blocks)
    IN  sort_blocks(Append(blocks, StandaloneBlock(type, content, json, pos)))

Standalone_add_text(blocks, text, position) ==
    Standalone_add(blocks, "text", text, <<>>, position)

Standalone_add_image(blocks, image_url, position) ==
    Standalone_add(blocks, "image", image_url, <<>>, position)

Standalone_add_json(blocks, json_data, position) ==
    Standalone_add(blocks, "json", "", json_data, position)

\* The text StructuredMessageContent.to_display_text renders for one block.
StandaloneDisplayPart(block) ==
    IF block.type = "text" THEN block.content
    ELSE IF block.type = "image" THEN "[Image: " \o block.content \o "]"
    ELSE "[JSON: " \o json_dumps(block.json) \o "]"

\* StructuredMessageContent.to_display_text
Standalone_to_display_text(blocks) ==
    join([i \in 1..Len(blocks) |-> StandaloneDisplayPart(blocks[i])], 1)

\* The structured content the callers pass: a text block added without a
\* position, then an image block at position 2 and a json block at
\* position 1.
StandaloneContents ==
    { Content(Standalone_add_json(
                  Standalone_add_image(Standalone_add_text(<<>>, "a", NoPosition),
                                       "i.png", 2),
                  << <<"k", "1">> >>, 1)) }

\* Message(role=..., content=...): id is a fresh uuid and timestamp is
\* datetime.now().
StandaloneMessage(id, role, content, timestamp) ==
    [id |-> id, role |-> role, content |-> content, timestamp |-> timestamp]

\* str(uuid.uuid4()) for the conversation of call n
Standalone_new_id(n) == "uuid-" \o ToString(n)

\* StandaloneConversationManager.save_message
save_message(conversations, conversation_id, message) ==
    LET c1 == IF conversation_id \notin DOMAIN conversations
              THEN [c \in DOMAIN conversations \cup {conversation_id} |->
                      IF c = conversation_id THEN <<>> ELSE conversations[c]]
              ELSE conversations
    IN  [c1 EXCEPT ![conversation_id] = Append(@, message)]

\* StandaloneConversationManager.get_conversation_history, as a value
get_conversation_history(conversations, conversation_id) ==
    IF conversation_id \in DOMAIN conversations
    THEN conversations[conversation_id] ELSE <<>>

\* The local list `messages` of call n: the list the manager stores when
\* dict.get found the key, else the list of the call's own.
LocalMessages(s, n) ==
    IF s.calls[n].aliased
    THEN s.conversations[s.calls[n].conv_id]
    ELSE s.calls[n].messages

\* messages.append(msg) and then conversation_manager.save_message(conv_id,
\* msg) in call n.
AppendAndSave(s, n, msg) ==
    LET s1 == IF s.calls[n].aliased
              THEN [s EXCEPT !.conversations[s.calls[n].conv_id] = Append(@, msg)]
              ELSE [s EXCEPT !.calls[n].messages = Append(@, msg)]
    IN  [s1 EXCEPT !.conversations =
                       save_message(s1.conversations, s.calls[n].conv_id, msg)]

\* The line of the standalone MockLLM for one block.
StandaloneMockPart(block) ==
    LET position_text == "Position " \o ToString(block.position)
    IN  IF block.type = "text" THEN position_text \o ": Text - " \o block.content
        ELSE IF block.type = "image" THEN position_text \o ": Image - " \o block.content
        ELSE position_text \o ": JSON with " \o ToString(Len(block.json)) \o " fields"

\* MockLLM.generate_response of main.py, computed after its sleep.
Standalone_generate_response(messages, current_input) ==
    LET blocks == current_input.blocks
        lines == <<"I analyzed your content in the specified order:">> \o
                 [i \in 1..Len(blocks) |-> StandaloneMockPart(blocks[i])]
        users == UserCount(messages)
    IN  join(IF users > 0
             THEN Append(lines, "This is interaction #" \o ToString(users + 1) \o ".")
             ELSE lines, 1)

\* One message of the exported document.
StandaloneDump(msg) ==
    [id |-> msg.id, role |-> msg.role, timestamp |-> msg.timestamp,
     content |-> IF msg.content.isStr
                 THEN [type |-> "str", text |-> msg.content.str, blocks |-> <<>>]
                 ELSE [type |-> "structured", text |-> "",
                       blocks |-> msg.content.blocks]]

\* StandaloneConversationManager.save_conversation_to_file: nothing for a
\* conversation without messages, else a document in a file named by the
\* conversation and the second.
Standalone_save_conversation_to_file(s, conversation_id) ==
    LET messages == get_conversation_history(s.conversations, conversation_id)
    IN  IF messages = <<>> THEN s
        ELSE [s EXCEPT !.files =
                 WriteFile(s.files, conversation_id \o "_" \o ToString(s.now),
                           [conversation_id |-> conversation_id,
                            created_at |-> messages[1].timestamp,
                            updated_at |-> s.now,
                            messages |-> [i \in 1..Len(messages) |->
                                             StandaloneDump(messages[i])]])]

\* The end of chat in call n: the export when is_final, the result, and the
\* semaphore unit given back.
StandaloneReturn(s, n, response) ==
    LET s1 == IF s.calls[n].is_final
              THEN Standalone_save_conversation_to_file(s, s.calls[n].conv_id)
              ELSE s
    IN  [s1 EXCEPT !.semaphore = @ + 1,
                   !.calls[n] = [@ EXCEPT !.pc = "returned",
                                          !.response = response,
                                          !.message_count = Len(LocalMessages(s1, n)),
                                          !.input_preview =
                                              IF s.calls[n].structured_content.present
                                              THEN Standalone_to_display_text(
                                                       s.calls[n].structured_content.blocks)
                                              ELSE None]]

\* StandaloneConversationGraph(max_concurrent)
StandaloneConversationGraph_init(capacity) ==
    /\ standalone.graph = "none"
    /\ standalone' = [standalone EXCEPT !.graph = "built",
                                        !.semaphore = capacity]
    /\ UNCHANGED <<graphVars, built, loaded, wire>>

\* Time passes.
StandaloneTick ==
    /\ standalone.graph = "built"
    /\ standalone.now < MaxClock
    /\ standalone' = [standalone EXCEPT !.now = @ + 1]
    /\ UNCHANGED <<graphVars, built, loaded, wire>>

\* The conversation ids a caller of the standalone graph passes: the
\* conversation_id of a result it got back.
StandaloneKnownIds ==
    {standalone.calls[n].conv_id :
        n \in {k \in StandaloneCallIds : standalone.calls[k].pc = "returned"}}

\* A caller calls chat(conversation_id, system_prompt, structured_content,
\* is_final).
StandaloneInvoke(n, conversation_id, system_prompt, structured_content, is_final) ==
    /\ standalone.graph = "built"
    /\ standalone.calls[n].pc = "notyet"
    /\ \A k \in 1..(n - 1) : standalone.calls[k].pc # "notyet"
    /\ standalone' = [standalone EXCEPT !.calls[n] =
            [@ EXCEPT !.pc = "acquire",
                      !.conversation_id = conversation_id,
                      !.system_prompt = system_prompt,
                      !.structured_content = structured_content,
                      !.is_final = is_final]]
    /\ UNCHANGED <<graphVars, built, loaded, wire>>

\* async with self.semaphore and the body up to the await of
\* llm.generate_response; without an input, the body to its end.
StandaloneAcquire(n) ==
    /\ standalone.calls[n].pc = "acquire"
    /\ standalone.semaphore > 0
    /\ LET c == standalone.calls[n]
           conv_id == IF Truthy(c.conversation_id) THEN c.conversation_id
                      ELSE Standalone_new_id(n)
           inside == {m \in StandaloneCallIds : standalone.calls[m].pc = "generate"}
           entered == {m \in StandaloneCallIds :
                          /\ standalone.calls[m].pc \in {"generate", "returned"}
                          /\ standalone.calls[m].conv_id = conv_id}
           s0 == [standalone EXCEPT
                     !.semaphore = @ - 1,
                     !.calls = [m \in StandaloneCallIds |->
                        IF m = n
                        THEN [c EXCEPT !.conv_id = conv_id,
                                       !.aliased = conv_id \in DOMAIN standalone.conversations,
                                       !.messages = <<>>,
                                       !.turn = Cardinality(entered) + 1,
                                       !.alone = (inside = {})]
                        ELSE IF m \in inside
                        THEN [standalone.calls[m] EXCEPT !.alone = FALSE]
                        ELSE standalone.calls[m]]]
           s1 == IF LocalMessages(s0, n) = <<>> /\ Truthy(c.system_prompt)
                 THEN AppendAndSave(s0, n,
                          StandaloneMessage(new_msg_id(n, 1), "system",
                                            StrContent(c.system_prompt), s0.now))
                 ELSE s0
       IN  standalone' = IF c.structured_content.present
                         THEN [s1 EXCEPT !.calls[n].pc = "generate"]
                         ELSE StandaloneReturn(s1, n, None)
    /\ UNCHANGED <<graphVars, built, loaded, wire>>

\* llm.generate_response returns: the user message and the assistant
\* message are appended and saved, and chat ends.
StandaloneGenerated(n) ==
    /\ standalone.calls[n].pc = "generate"
    /\ LET c == standalone.calls[n]
           response == Standalone_generate_response(LocalMessages(standalone, n),
                                                    c.structured_content)
           s1 == AppendAndSave(standalone, n,
                     StandaloneMessage(new_msg_id(n, 2), "user",
                                       StructContent(c.structured_content),
                                       standalone.now))
           s2 == AppendAndSave(s1, n,
                     StandaloneMessage(new_msg_id(n, 3), "assistant",
                                       StrContent(response), standalone.now))
       IN  standalone' = StandaloneReturn(s2, n, response)
    /\ UNCHANGED <<graphVars, built, loaded, wire>>

\* The default of max_concurrent
DefaultConcurrent == 5

InitStandalone == Init /\ llm = "mock" /\ max_concurrent = 1

NextStandalone ==
    \/ \E mc \in {1, DefaultConcurrent} : StandaloneConversationGraph_init(mc)
    \/ StandaloneTick
    \/ \E n \in StandaloneCallIds, id \in StandaloneKnownIds \cup {None},
          sp \in SystemPrompts, c \in StandaloneContents \cup {NoContent},
          final \in BOOLEAN : StandaloneInvoke(n, id, sp, c, final)
    \/ \E n \in StandaloneCallIds : StandaloneAcquire(n)
    \/ \E n \in StandaloneCallIds : StandaloneGenerated(n)

SpecStandalone == InitStandalone /\ [][NextStandalone]_vars

\* The calls that have entered the body of chat on conversation conv_id.
StandaloneCallsOn(conv_id) ==
    {m \in StandaloneCallIds :
        /\ standalone.calls[m].pc \in {"generate", "returned"}
        /\ standalone.calls[m].conv_id = conv_id}

\* Call n has returned as the k-th of k chat calls on its conversation that
\* ran one after the other, each with an input, the first with a system
\* prompt.
StandaloneSequentialTurns(n) ==
    /\ standalone.calls[n].pc = "returned"
    /\ \A m \in StandaloneCallsOn(standalone.calls[n].conv_id) :
           standalone.calls[m].turn <= standalone.calls[n].turn =>
               /\ standalone.calls[m].alone
               /\ standalone.calls[m].structured_content.present
               /\ standalone.calls[m].turn = 1 => Truthy(standalone.calls[m].system_prompt)

\* C39: in the standalone implementation every turn stores its user message
\* and its assistant message once: the k-th of k chat calls with an input
\* made one after the other on a conversation that began with a system
\* prompt returns message_count = 1 + 2k, and the conversation then holds
\* 1 + 2k stored messages.
C39_StandaloneStoresEachOnce ==
    \A n \in StandaloneCallIds :
        StandaloneSequentialTurns(n) =>
            LET c == standalone.calls[n]
            IN  /\ c.message_count = 1 + 2 * c.turn
                /\ c.turn = Cardinality(StandaloneCallsOn(c.conv_id)) =>
                       Len(get_conversation_history(standalone.conversations,
                                                    c.conv_id)) = 1 + 2 * c.turn
====
